---- MODULE Spec2Model ----
(***************************************************************************)
(* Persistent terminal session engine: SessionLifecycle (the per-session   *)
(* attach/reconnect state machine) and TerminalManager (session registry,  *)
(* createOrAttach, kill, detach, exit handling).                           *)
(*                                                                         *)
(* Every asynchronous handler is split at its awaits: one action per       *)
(* segment that runs without suspension on the event loop.  Objects that   *)
(* nothing refers to any more are collected, so that ids are reused.       *)
(***************************************************************************)
EXTENDS Integers, Sequences, FiniteSets, TLC

\* ---------------------------------------------------------------- bounds
MaxPtys == 2
MaxLifecycles == 2
MaxSessions == 2
MaxCalls == 2
\* API calls made on the TerminalManager, and failures of its environment
\* (spontaneous process exits, backend errors), in one behaviour
MaxOps == 4
MaxFaults == 2
\* environment failures in a behaviour that varies the geometry
MaxGeometryFaults == 1
\* the same two budgets in behaviours that include killByWorkspaceId
MaxWorkspaceOps == 3
MaxWorkspaceFaults == 1
\* budgets, and processes that may exist at once, in behaviours about
\* createOrAttach after detach: the detached process, the reconnect of the
\* detached Lifecycle and the new attach need one process each
MaxReattachOps == 3
MaxReattachFaults == 1
MaxReattachPtys == 3

\* AttachTask objects alive at once, and the spread of Date.now() values among
\* the queued ones
MaxTasks == 5
MaxClock == 1
\* completion callbacks kept for a second call
MaxHeld == 1

\* pieces of terminal output a sanitized string is made of
MaxFragments == 4

\* PTY chunks of one session, and reinitializations of its history
MaxChunks == 2
MaxReinits == 2

\* ------------------------------------------------------------- constants
MAX_RETRIES == 3
MAX_CONCURRENT_ATTACHES == 3

Panes == {"p1"}
PtySlots == IF MaxPtys > MaxReattachPtys THEN MaxPtys ELSE MaxReattachPtys
PtyIds == 1..PtySlots
LcIds == 1..MaxLifecycles
SessIds == 1..MaxSessions
CallIds == 1..MaxCalls

NoPty == 0
NoLc == 0
NoSess == 0
NoCall == 0

DefaultDims == [cols |-> 80, rows |-> 24]
Geoms == {[cols |-> 80, rows |-> 24], [cols |-> 120, rows |-> 40]}

TmuxError == {"NO_SERVER", "NO_SESSION", "SOCKET_MISSING", "TMUX_NOT_FOUND", "ATTACH_FAILED"}

\* the classes of the errors that the backend is made to throw
Thrown == {"NO_SERVER", "ATTACH_FAILED"}

SessionState == {"disconnected", "connecting", "connected", "reconnecting", "failed", "closed"}

\* a PTY id not yet handed out, and an exited process
FreePty == [st |-> "free", lc |-> NoLc, sess |-> NoSess, pane |-> "p1", wired |-> DefaultDims,
            signalled |-> FALSE]

DeadPty == [FreePty EXCEPT !.st = "dead"]

NewLifecycle(pane) ==
    [created |-> TRUE, pane |-> pane, state |-> "disconnected", ptyProcess |-> NoPty,
     attachPromise |-> FALSE, retryCount |-> 0, lastDimensions |-> DefaultDims,
     disposed |-> FALSE, attempts |-> 0, resized |-> FALSE]

NoLifecycle == [NewLifecycle("p1") EXCEPT !.created = FALSE]

NewSession(pane, p, persistent, recovered, fallback) ==
    [created |-> TRUE, pane |-> pane, pty |-> p, isAlive |-> TRUE,
     isExpectedDetach |-> FALSE, isPersistentBackend |-> persistent,
     wasRecovered |-> recovered, usedFallback |-> fallback, cleanupTimeout |-> FALSE,
     deleteHistoryOnExit |-> FALSE]

NoSession == [NewSession("p1", NoPty, FALSE, FALSE, FALSE) EXCEPT !.created = FALSE, !.isAlive = FALSE]

NoResult == [isNew |-> FALSE, wasRecovered |-> FALSE]

\* no killByWorkspaceId call; per pane, wait is the position of its
\* killSessionWithTimeout promise
NoKbw == [call |-> "idle", wait |-> [p \in Panes |-> "none"], sess |-> [p \in Panes |-> NoSess]]

\* no detachAll or cleanup call; todo holds the registry entries the loop of
\* the call has still to visit, wait the position of a pane's exit promise
NoDown == [call |-> "idle", pc |-> "none", pane |-> "p1", sess |-> NoSess, todo |-> {},
           wait |-> [p \in Panes |-> "none"]]

NoCount == [killed |-> 0, failed |-> 0, matched |-> 0]

NoCallRec == [pc |-> "free", pane |-> "p1", geom |-> DefaultDims, existing |-> NoSess,
              lc |-> NoLc, pty |-> NoPty, leader |-> NoCall, wait |-> "none",
              after |-> NoCall, result |-> NoResult]

VARIABLES
    lc,               \* SessionLifecycle objects
    tasks,            \* suspended continuations of Lifecycle handlers
    ptys,             \* PTY processes handed out by attachSession / spawn
    backend,          \* does the backend (tmux) session of a pane exist
    sessions,         \* TerminalManager.sessions  (paneId -> session object)
    sess,             \* TerminalSession objects
    lifecycles,       \* TerminalManager.lifecycles (paneId -> Lifecycle)
    pendingSessions,  \* TerminalManager.pendingSessions (paneId -> promise)
    calls,            \* createOrAttach invocations and their promises
    mtasks,           \* suspended continuations of kill / detach / exit handlers
    kbw,              \* the killByWorkspaceId call in progress, if any
    down,             \* the detachAll or cleanup call in progress, if any
    spawns,           \* PTYs started for createOrAttach calls that overlap
    persist,          \* processPersistence.enabled
    dims,             \* the geometries callers ask for
    budget,           \* API calls and environment failures still to come
    emitted,          \* callbacks and events raised by the last step, in order
    last,             \* the operation performed by the last step (observer)
    sched,            \* the attach scheduler: inFlight, queue, pendingByPaneId, tasks
    text,             \* a string given to sanitizeTerminalScrollback, and the results
    term              \* one session's output path: history writers, batcher, data events

vars == <<lc, tasks, ptys, backend, sessions, sess, lifecycles, pendingSessions, calls,
          mtasks, kbw, down, spawns, persist, dims, budget, emitted, last, sched, text, term>>

\* the state of the TerminalManager and its Lifecycles
managerVars == <<lc, tasks, ptys, backend, sessions, sess, lifecycles, pendingSessions,
                 calls, mtasks, kbw, down, spawns, persist, dims, budget, emitted, last>>

\* a settled createOrAttach promise is kept only while a call that was issued
\* before it settled is still running
Held(cs) ==
    [c \in CallIds |->
        IF cs[c].pc # "done" THEN cs[c]
        ELSE IF \E x \in CallIds : cs[x].pc \notin {"free", "done"} /\ cs[x].after = c
        THEN [cs[c] EXCEPT !.after = NoCall]
        ELSE NoCallRec]

W == [lc |-> lc, tasks |-> tasks, ptys |-> ptys, backend |-> backend,
      sessions |-> sessions, sess |-> sess, lifecycles |-> lifecycles,
      pendingSessions |-> pendingSessions, calls |-> Held(calls), mtasks |-> mtasks, kbw |-> kbw,
      down |-> down,
      spawns |-> spawns, budget |-> budget, emitted |-> <<>>, last |-> last]

Op(name, l, ok, auto, g) ==
    [op |-> name, lc |-> l, ok |-> ok, auto |-> auto, geom |-> g, err |-> "none",
     out |-> "none", res |-> NoCount]

\* an event or callback raised by the program
Event(ev, pane, kind) == [ev |-> ev, pane |-> pane, kind |-> kind]
\* killSessionWithTimeout: cleanup(success); the continuation of Promise.all
\* runs up to `await processPersistence.killByWorkspace`
resolve(w, pane, success) ==
    LET w1 == [w EXCEPT !.kbw.wait[pane] = IF success THEN "true" ELSE "false"]
    IN IF \A p \in Panes : w1.kbw.wait[p] \in {"none", "true", "false"}
       THEN [w1 EXCEPT !.kbw.call = "backend"]
       ELSE w1

cleanup(w, pane, success) ==
    IF w.kbw.wait[pane] \in {"sigterm", "sigkill", "listening"}
    THEN resolve(w, pane, success)
    ELSE w

\* cleanup() after `await Promise.all(exitPromises)`
mgrCleanupDone(w) ==
    [w EXCEPT !.sessions = [p \in Panes |-> NoSess],
              !.down = NoDown,
              !.emitted = Append(@, Event("return", "*", "cleanup"))]

\* cleanup() at `await Promise.all(exitPromises)`
mgrCleanupAwaitAll(w) ==
    IF \A p \in Panes : w.down.wait[p] # "exitWait"
    THEN mgrCleanupDone(w)
    ELSE [w EXCEPT !.down.pc = "all"]

\* cleanup(): exitHandler and the 2 s timer of an exit promise
exitHandler(w, pane) ==
    IF w.down.call = "cleanup" /\ w.down.wait[pane] = "exitWait"
    THEN LET w1 == [w EXCEPT !.down.wait[pane] = "resolved"]
         IN IF w1.down.pc = "all" THEN mgrCleanupAwaitAll(w1) ELSE w1
    ELSE w

\* this.emit("exit:<pane>") runs the `once` listeners of killSessionWithTimeout
\* and of cleanup
Emit(w, ev, pane, kind) ==
    LET w1 == [w EXCEPT !.emitted = Append(@, Event(ev, pane, kind))]
    IN IF ev = "exit" THEN exitHandler(cleanup(w1, pane, TRUE), pane) ELSE w1

Did(w, name, l, ok, auto, g) == [w EXCEPT !.last = Op(name, l, ok, auto, g)]

\* a negative budget is unlimited
Unlimited == [ops |-> -1, faults |-> -1, ptys |-> MaxPtys]
Can(kind) == budget[kind] # 0
Spend(w, kind) == [w EXCEPT !.budget[kind] = IF @ > 0 THEN @ - 1 ELSE @]

Min(S) == CHOOSE x \in S : \A y \in S : x <= y

\* ------------------------------------------------- unreferenced objects
Running(w, c) == w.calls[c].pc \notin {"free", "done"}

refSess(w, s) ==
    \/ \E pane \in Panes : w.sessions[pane] = s
    \/ \E c \in CallIds : Running(w, c) /\ w.calls[c].existing = s
    \/ \E p \in PtyIds : w.ptys[p].st = "live" /\ w.ptys[p].sess = s
    \/ \E t \in w.mtasks : t.sess = s
    \/ \E pane \in Panes : w.kbw.sess[pane] = s
    \/ w.down.sess = s
    \/ w.sess[s].cleanupTimeout

refLc(w, l) ==
    \/ \E pane \in Panes : w.lifecycles[pane] = l
    \/ \E t \in w.tasks : t.lc = l
    \/ \E p \in PtyIds : w.ptys[p].st = "live" /\ w.ptys[p].lc = l
    \/ \E c \in CallIds : Running(w, c) /\ w.calls[c].lc = l

refPty(w, p) ==
    \/ \E l \in LcIds : w.lc[l].ptyProcess = p
    \/ \E s \in SessIds : w.sess[s].created /\ w.sess[s].pty = p
    \/ \E t \in w.tasks : t.org = p
    \/ \E c \in CallIds : Running(w, c) /\ w.calls[c].pty = p
    \/ \E t \in w.mtasks : t.pty = p

Collect(w) ==
    LET w1 == [w EXCEPT !.sess = [s \in SessIds |-> IF refSess(w, s) THEN w.sess[s] ELSE NoSession],
                        !.lc = [l \in LcIds |-> IF refLc(w, l) THEN w.lc[l] ELSE NoLifecycle]]
    IN [w1 EXCEPT !.ptys = [p \in PtyIds |->
            IF w1.ptys[p].st = "dead" /\ ~refPty(w1, p) THEN FreePty
            ELSE IF w1.ptys[p].st = "dead" THEN DeadPty ELSE w1.ptys[p]],
                  !.spawns = IF \E c \in CallIds : Running(w, c) THEN @ ELSE 0]

\* the loop of detachAll or cleanup walks this.sessions.entries(), a live
\* iterator: an entry added while the call is suspended is visited later, a
\* deleted one is not
Iterate(w) ==
    IF w.down.call = "idle" THEN w
    ELSE [w EXCEPT !.down.todo =
              (@ \cup {p \in Panes : sessions[p] = NoSess /\ w.sessions[p] # NoSess})
              \ {p \in Panes : w.sessions[p] = NoSess}]

Apply(w0) ==
    \E w \in {Collect(w0)} :
       /\ lc' = w.lc
       /\ tasks' = w.tasks
       /\ ptys' = w.ptys
       /\ backend' = w.backend
       /\ sessions' = w.sessions
       /\ sess' = w.sess
       /\ lifecycles' = w.lifecycles
       /\ pendingSessions' = w.pendingSessions
       /\ calls' = w.calls
       /\ mtasks' = w.mtasks
       /\ kbw' = w.kbw
       /\ down' = Iterate(w).down
       /\ spawns' = w.spawns
       /\ budget' = w.budget
       /\ emitted' = w.emitted
       /\ last' = w.last
       /\ UNCHANGED <<persist, dims, sched, text, term>>

FreePtys(w) == {p \in PtyIds : p <= w.budget.ptys /\ w.ptys[p].st = "free"}
FreeLcs(w) == {l \in LcIds : ~w.lc[l].created}
FreeSess(w) == {s \in SessIds : ~w.sess[s].created}

\* node-pty handle operations
ptySignal(w, p, sig) ==
    IF p # NoPty /\ w.ptys[p].st = "live"
    THEN [w EXCEPT !.ptys[p].signalled = TRUE,
                   !.emitted = Append(@, Event("signal", w.ptys[p].pane, sig))]
    ELSE w

ptyKill(w, p) == ptySignal(w, p, "SIGTERM")

ptyResize(w, p, g) == w

\* ------------------------------------------- TerminalManager callbacks
handleLifecycleStateChange(w, paneId, state, prevState) ==
    LET s == w.sessions[paneId]
        cur == w.lifecycles[paneId]
        w1 == IF state = "connected" /\ prevState = "reconnecting" /\ s # NoSess
              THEN LET wa == [w EXCEPT !.sess[s].isAlive = TRUE]
                   IN IF cur # NoLc /\ wa.lc[cur].ptyProcess # NoPty
                      THEN [wa EXCEPT !.sess[s].pty = wa.lc[cur].ptyProcess]
                      ELSE wa
              ELSE w
        w2 == IF state = "failed" THEN Emit(w1, "error", paneId, "persistence-failed") ELSE w1
    IN IF state = "closed" /\ s # NoSess
       THEN Emit([w2 EXCEPT !.sess[s].isAlive = FALSE], "exit", paneId, "exit")
       ELSE w2

handleLifecycleError(w, paneId, error) == w

\* events.onError of a Lifecycle
onError(w, l, error) ==
    handleLifecycleError(Emit(w, "onError", w.lc[l].pane, error), w.lc[l].pane, error)

\* ------------------------------------------------------ SessionLifecycle
transition(w, l, newState) ==
    IF w.lc[l].state = newState THEN w
    ELSE handleLifecycleStateChange([w EXCEPT !.lc[l].state = newState],
                                    w.lc[l].pane, newState, w.lc[l].state)

doAttach(w, l, g, org) ==
    LET w1 == transition(w, l, "connecting")
    IN [w1 EXCEPT !.tasks = @ \cup {[lc |-> l, org |-> org, pc |-> "sessionExists", geom |-> g]}]

\* what a call of ensureAttached does before its first suspension
ensureAttachedKind(w, l) ==
    IF w.lc[l].disposed THEN "disposed"
    ELSE IF w.lc[l].attachPromise THEN "await"
    ELSE IF w.lc[l].state = "connected" /\ w.lc[l].ptyProcess # NoPty THEN "connected"
    ELSE "attach"

ensureAttached(w, l, g) ==
    LET kind == ensureAttachedKind(w, l)
        w1 == [w EXCEPT !.lc[l].lastDimensions = g, !.lc[l].resized = FALSE]
    IN CASE kind = "disposed" -> w
         [] kind = "await" -> w1
         [] kind = "connected" -> ptyResize(w1, w.lc[l].ptyProcess, g)
         [] OTHER -> doAttach([w1 EXCEPT !.lc[l].attachPromise = TRUE], l, g, 0)

\* write() that checks the handle but not the state
writeAllowedNoState(L) == L.ptyProcess # NoPty

writeAllowed(L) == L.state = "connected" /\ L.ptyProcess # NoPty

resizeAllowed(L) == L.state = "connected" /\ L.ptyProcess # NoPty

resize(w, l, g) ==
    LET w1 == [w EXCEPT !.lc[l].lastDimensions = g, !.lc[l].resized = TRUE]
    IN IF resizeAllowed(w.lc[l]) THEN ptyResize(w1, w.lc[l].ptyProcess, g) ELSE w1

\* detach() that also ends the backend session
detachKillsBackend(w, l) ==
    IF w.lc[l].disposed THEN w
    ELSE LET w1 == IF w.lc[l].ptyProcess # NoPty
                   THEN [ptyKill(w, w.lc[l].ptyProcess) EXCEPT !.lc[l].ptyProcess = NoPty]
                   ELSE w
         IN transition([w1 EXCEPT !.backend[w.lc[l].pane] = FALSE], l, "disconnected")

detach(w, l) ==
    IF w.lc[l].disposed THEN w
    ELSE LET w1 == IF w.lc[l].ptyProcess # NoPty
                   THEN [ptyKill(w, w.lc[l].ptyProcess) EXCEPT !.lc[l].ptyProcess = NoPty]
                   ELSE w
         IN transition(w1, l, "disconnected")

close(w, l) ==
    LET w1 == transition([w EXCEPT !.lc[l].disposed = TRUE], l, "closed")
    IN IF w1.lc[l].ptyProcess # NoPty
       THEN [ptyKill(w1, w1.lc[l].ptyProcess) EXCEPT !.lc[l].ptyProcess = NoPty]
       ELSE w1

retryKind(w, l) ==
    IF w.lc[l].disposed THEN "disposed"
    ELSE IF w.lc[l].state # "failed" THEN "notFailed"
    ELSE ensureAttachedKind(w, l)

retry(w, l) ==
    IF w.lc[l].disposed \/ w.lc[l].state # "failed" THEN w
    ELSE ensureAttached([w EXCEPT !.lc[l].retryCount = 0], l, w.lc[l].lastDimensions)

\* ------------------------------------------------------ TerminalManager
PendingCalls(w, pane) == {c \in CallIds : Running(w, c) /\ w.calls[c].pane = pane}

ReusableCalls(w) ==
    {c \in CallIds : ~Running(w, c) /\ ~\E x \in CallIds : Running(w, x) /\ w.calls[x].after = c}

\* a createOrAttach promise resolves; the calls that returned it resolve with it
finishCall(w, c, result, registered) ==
    LET pane == w.calls[c].pane
        resolved(x) == [NoCallRec EXCEPT !.pc = "done", !.pane = pane,
                                         !.after = w.calls[x].after, !.result = result]
        w1 == [w EXCEPT !.calls = [x \in CallIds |->
                  IF x = c \/ (w.calls[x].pc = "follow" /\ w.calls[x].leader = c)
                  THEN resolved(x) ELSE w.calls[x]]]
    IN IF registered THEN [w1 EXCEPT !.pendingSessions[pane] = NoCall] ELSE w1

\* SessionLifecycle.canWrite: the non-throwing guard of write
canWrite(L) == L.state = "connected" /\ L.ptyProcess # NoPty

\* write() that hands the data to the session's PTY whenever the Lifecycle
\* cannot take it
mgrWriteNoGate(w, paneId) ==
    LET s == w.sessions[paneId]
    IN IF s = NoSess \/ ~w.sess[s].isAlive THEN "throw" ELSE "written"

\* TerminalManager.write: "throw", "dropped" (returns, nothing written) or
\* "written" (the data is handed to a PTY)
mgrWrite(w, paneId) ==
    LET s == w.sessions[paneId]
        l == w.lifecycles[paneId]
    IN IF s = NoSess \/ ~w.sess[s].isAlive THEN "throw"
       ELSE IF l = NoLc THEN "written"
       ELSE IF canWrite(w.lc[l])
       THEN IF writeAllowed(w.lc[l]) THEN "written" ELSE "throw"
       ELSE IF w.lc[l].state \in {"reconnecting", "connecting"} THEN "dropped"
       ELSE "throw"

mgrResize(w, paneId, g) ==
    LET s == w.sessions[paneId]
        l == w.lifecycles[paneId]
    IN IF s = NoSess \/ ~w.sess[s].isAlive THEN w
       ELSE IF l # NoLc THEN resize(w, l, g)
       ELSE ptyResize(w, w.sess[s].pty, g)

\* createOrAttach on an alive session, after the optional `await lifecycle.retry()`
returnExisting(w, c, reattached) ==
    LET e == w.calls[c].existing
        l == w.calls[c].lc
        w1 == IF reattached THEN [w EXCEPT !.sess[e].pty = w.lc[l].ptyProcess] ELSE w
        w2 == mgrResize(w1, w.calls[c].pane, w.calls[c].geom)
    IN finishCall(w2, c, [isNew |-> FALSE, wasRecovered |-> w.sess[e].wasRecovered], FALSE)

\* doCreateOrAttachPersistent after `await lifecycle.ensureAttached` (attach branch)
afterAttach1(w, c, attached) ==
    LET l == w.calls[c].lc
    IN IF attached /\ w.lc[l].ptyProcess # NoPty
       THEN [w EXCEPT !.calls[c].pc = "setup1", !.calls[c].pty = w.lc[l].ptyProcess,
                      !.calls[c].wait = "none"]
       ELSE [w EXCEPT !.calls[c].pc = "kill1", !.calls[c].lc = NoLc, !.calls[c].wait = "none"]

\* doCreateOrAttachPersistent after `await lifecycle.ensureAttached` (create branch)
afterAttach2(w, c, attached) ==
    LET l == w.calls[c].lc
    IN IF attached /\ w.lc[l].ptyProcess # NoPty
       THEN [w EXCEPT !.calls[c].pc = "setup2", !.calls[c].pty = w.lc[l].ptyProcess,
                      !.calls[c].wait = "none"]
       ELSE [w EXCEPT !.lifecycles[w.calls[c].pane] = NoLc, !.calls[c].pc = "spawnPre",
                      !.calls[c].lc = NoLc, !.calls[c].wait = "none"]

afterAttach(w, c, attached) ==
    CASE w.calls[c].pc = "retry" -> returnExisting(w, c, attached)
      [] w.calls[c].pc = "attach1" -> afterAttach1(w, c, attached)
      [] OTHER -> afterAttach2(w, c, attached)

Waiters(w, l) ==
    {c \in CallIds : w.calls[c].pc \in {"retry", "attach1", "attach2"} /\ w.calls[c].lc = l}

RECURSIVE resumeAll(_, _, _, _)
resumeAll(w, S, l, result) ==
    IF S = {} THEN w
    ELSE LET c == CHOOSE x \in S : w.calls[x].wait = "leader"
                                   \/ \A y \in S : w.calls[y].wait # "leader"
             attached == IF w.calls[c].wait = "leader" THEN result
                         ELSE w.lc[l].state = "connected"
         IN resumeAll(afterAttach(w, c, attached), S \ {c}, l, result)

\* callers suspended on `await lifecycle.ensureAttached(...)` / `retry()`
resumeWaiters(w, l, result) == resumeAll(w, Waiters(w, l), l, result)

getOrCreateLifecycle(w, paneId) ==
    IF w.lifecycles[paneId] # NoLc THEN w
    ELSE LET l == Min(FreeLcs(w))
         IN [w EXCEPT !.lc[l] = NewLifecycle(paneId), !.lifecycles[paneId] = l]

\* getOrCreateLifecycle followed by `lifecycle.ensureAttached(cols, rows)`
startAttach(w, c, pcWait) ==
    LET w1 == getOrCreateLifecycle(w, w.calls[c].pane)
        l == w1.lifecycles[w.calls[c].pane]
        kind == ensureAttachedKind(w1, l)
        w2 == ensureAttached(w1, l, w.calls[c].geom)
        w3 == [w2 EXCEPT !.calls[c].pc = pcWait, !.calls[c].lc = l,
                         !.calls[c].wait = IF kind = "attach" THEN "leader" ELSE "follower"]
    IN IF kind \in {"attach", "await"} THEN w3
       ELSE afterAttach(w3, c, kind = "connected")

\* createOrAttach up to its first suspension; c is the record of the new call
createOrAttach(w, c, paneId, g, enabled) ==
    LET pend == w.pendingSessions[paneId]
        running == PendingCalls(w, paneId)
        existing == w.sessions[paneId]
        l == w.lifecycles[paneId]
        new == [NoCallRec EXCEPT !.pane = paneId, !.geom = g,
                                 !.after = IF running = {} THEN NoCall ELSE Min(running)]
        w0 == [w EXCEPT !.calls = [x \in CallIds |->
                            IF x = c THEN new
                            ELSE IF w.calls[x].after = c THEN [w.calls[x] EXCEPT !.after = NoCall]
                            ELSE w.calls[x]],
                        !.spawns = IF running = {} THEN 0 ELSE @]
    IN IF pend # NoCall
       THEN [w0 EXCEPT !.calls[c].pc = "follow", !.calls[c].leader = pend]
       ELSE IF existing # NoSess /\ w.sess[existing].isAlive
       THEN LET w1 == [w0 EXCEPT !.calls[c].existing = existing, !.calls[c].lc = l]
            IN IF l # NoLc /\ w.lc[l].state = "failed" /\ retryKind(w, l) \in {"attach", "await"}
               THEN [retry(w1, l) EXCEPT !.calls[c].pc = "retry",
                        !.calls[c].wait = IF retryKind(w, l) = "attach" THEN "leader" ELSE "follower"]
               ELSE returnExisting(w1, c, FALSE)
       ELSE LET w1 == IF existing # NoSess /\ w.sess[existing].isExpectedDetach
                      THEN [w0 EXCEPT !.sessions[paneId] = NoSess] ELSE w0
            IN [w1 EXCEPT !.pendingSessions[paneId] = c, !.calls[c].existing = existing,
                          !.calls[c].pc = IF enabled THEN "sessionExists1" ELSE "spawnPre"]

\* setupPersistentSessionWithLifecycle, from `new HistoryWriter` to its return
setupPersistentSessionWithLifecycle(w, c, s) ==
    LET pane == w.calls[c].pane
        recovered == w.calls[c].pc = "setup1"
        w1 == [w EXCEPT !.sess[s] = NewSession(pane, w.calls[c].pty, TRUE, recovered, FALSE),
                        !.sessions[pane] = s]
    IN finishCall(w1, c, [isNew |-> TRUE, wasRecovered |-> recovered], TRUE)

\* createSession: spawnPty
spawnPty(w, p, pane) ==
    [w EXCEPT !.ptys[p] = [FreePty EXCEPT !.st = "live", !.pane = pane]]

\* setupExitHandler: session.pty.onExit(...) is registered
setupExitHandler(w, s) ==
    LET p == w.sess[s].pty
    IN IF w.ptys[p].st = "live" THEN [w EXCEPT !.ptys[p].sess = s] ELSE w

\* doCreateSession after createSession returned: handlers, then sessions.set
doCreateSession(w, pane, p, s, recovered, fallback) ==
    LET w1 == [w EXCEPT !.sess[s] = NewSession(pane, p, FALSE, recovered, fallback)]
    IN [setupExitHandler(w1, s) EXCEPT !.sessions[pane] = s]

\* ------------------------------------- SessionLifecycle, continuations
\* the end of a doAttach: the `finally` of ensureAttached clears attachPromise
settle(w, t, result) ==
    LET w1 == [w EXCEPT !.tasks = @ \ {t}]
    IN IF t.org = 0
       THEN resumeWaiters([w1 EXCEPT !.lc[t.lc].attachPromise = FALSE], t.lc, result)
       ELSE w1

\* doAttach after `await backend.sessionExists`
doAttachSessionChecked(w, t) ==
    IF ~w.backend[w.lc[t.lc].pane]
    THEN settle(transition(w, t.lc, "closed"), t, FALSE)
    ELSE [w EXCEPT !.tasks = (@ \ {t}) \cup {[t EXCEPT !.pc = "attachSession"]}]

wireHandlers(w, l, p, g) ==
    [w EXCEPT !.ptys[p] = [FreePty EXCEPT !.st = "live", !.lc = l, !.pane = w.lc[l].pane,
                                          !.wired = g]]

\* doAttach after `await backend.attachSession` returned the PTY p
doAttachResolved(w, t, p) ==
    LET l == t.lc
        w1 == wireHandlers([w EXCEPT !.lc[l].ptyProcess = p], l, p, t.geom)
        w2 == ptyResize(w1, p, t.geom)
        w3 == [w2 EXCEPT !.lc[l].retryCount = 0, !.lc[l].attempts = 0,
                         !.spawns = IF t.org = 0 /\ PendingCalls(w, w.lc[l].pane) # {} /\ @ < 2
                                    THEN @ + 1 ELSE @]
    IN settle(transition(w3, l, "connected"), t, TRUE)

\* a catch block that goes to failed without reporting the error
doAttachRejectedSilent(w, t, error) ==
    settle(transition(w, t.lc, "failed"), t, FALSE)

\* doAttach when sessionExists / attachSession threw: the catch block
doAttachRejected(w, t, error) ==
    settle(transition(onError(w, t.lc, error), t.lc, "failed"), t, FALSE)

\* ptyProcess.onExit handler, up to `await backend.sessionExists`
onExit(w, p) ==
    LET l == w.ptys[p].lc
        w1 == [w EXCEPT !.lc[l].ptyProcess = NoPty]
    IN IF w1.lc[l].disposed \/ w1.lc[l].state = "closed" THEN w1
       ELSE [w1 EXCEPT !.tasks = @ \cup {[lc |-> l, org |-> p, pc |-> "exitCheck",
                                          geom |-> w.ptys[p].wired]}]

\* onExit handler after `await backend.sessionExists`
onExitSessionChecked(w, t) ==
    LET l == t.lc
        rest == [w EXCEPT !.tasks = @ \ {t}]
    IN IF ~w.backend[w.lc[l].pane] THEN transition(rest, l, "closed")
       ELSE IF w.lc[l].retryCount < MAX_RETRIES
       THEN LET w1 == [w EXCEPT !.lc[l].retryCount = @ + 1,
                                !.tasks = (@ \ {t}) \cup {[t EXCEPT !.pc = "backoff"]}]
            IN transition(w1, l, "reconnecting")
       ELSE transition(onError(rest, l, "ATTACH_FAILED"), l, "failed")

\* onExit handler after the backoff delay
onExitBackoffElapsed(w, t) ==
    LET rest == [w EXCEPT !.tasks = @ \ {t}]
    IN IF ~w.lc[t.lc].disposed
       THEN doAttach([rest EXCEPT !.lc[t.lc].attempts = @ + 1], t.lc, t.geom, t.org)
       ELSE rest

\* --------------------------- TerminalManager: kill, detach, exit handler
MTask(kind, pc, pane, s, p) == [kind |-> kind, pc |-> pc, pane |-> pane, sess |-> s, pty |-> p]

\* closeSessionHistory deleting the history whether or not the session is marked
closeSessionHistoryDeletesUnmarked(w, s) == Emit(w, "cleanup", w.sess[s].pane, "history")

\* closeSessionHistory up to its first await: a session marked
\* deleteHistoryOnExit has its history deleted by HistoryReader.cleanup
closeSessionHistory(w, s) ==
    IF w.sess[s].deleteHistoryOnExit THEN Emit(w, "cleanup", w.sess[s].pane, "history") ELSE w

\* kill() from `if (session.isAlive && !session.isExpectedDetach)` on
\* by: the operation that awaits this kill(); killThrows: session.pty.kill()
\* throws, which nothing in kill() catches
killTail(w, by, paneId, s, killThrows) ==
    IF w.sess[s].isAlive /\ ~w.sess[s].isExpectedDetach
    THEN IF killThrows THEN Emit(w, "throw", paneId, by) ELSE ptyKill(w, w.sess[s].pty)
    ELSE [closeSessionHistory(w, s) EXCEPT
              !.mtasks = @ \cup {MTask(by, "closeHistory", paneId, s, NoPty)}]

kill(w0, by, paneId, deleteHistory, killThrows) ==
    LET s == w0.sessions[paneId]
        l == w0.lifecycles[paneId]
        w == IF s # NoSess /\ deleteHistory THEN [w0 EXCEPT !.sess[s].deleteHistoryOnExit = TRUE]
             ELSE w0
        w1 == IF l # NoLc THEN [close(w, l) EXCEPT !.lifecycles[paneId] = NoLc] ELSE w
    IN IF s = NoSess THEN w
       ELSE IF w.sess[s].isPersistentBackend
       THEN [w1 EXCEPT !.mtasks = @ \cup {MTask(by, "killSession", paneId, s, NoPty)}]
       ELSE killTail(w1, by, paneId, s, killThrows)

\* kill() after `await processPersistence.killSession`
killSessionKilled(w, t) ==
    killTail([w EXCEPT !.mtasks = @ \ {t}, !.backend[t.pane] = FALSE], t.kind, t.pane, t.sess,
             FALSE)

\* kill() after `await closeSessionHistory`
killHistoryClosed(w, t) ==
    [w EXCEPT !.mtasks = @ \ {t}, !.sessions[t.pane] = NoSess]

\* detach finalizing the history as for an exit
mgrDetachClosesHistory(w, paneId) ==
    LET s == w.sessions[paneId]
        l == w.lifecycles[paneId]
    IN IF s = NoSess THEN w
       ELSE IF w.sess[s].isPersistentBackend /\ w.sess[s].isAlive
       THEN LET w1 == [w EXCEPT !.sess[s].cleanupTimeout = FALSE]
                w2 == IF l # NoLc THEN [detach(w1, l) EXCEPT !.lifecycles[paneId] = NoLc] ELSE w1
            IN [closeSessionHistory(w2, s) EXCEPT
                          !.sess[s].isExpectedDetach = TRUE, !.sess[s].isAlive = FALSE,
                          !.mtasks = @ \cup {MTask("exit", "closeHistory", paneId, s, NoPty)}]
       ELSE w

mgrDetach(w, paneId) ==
    LET s == w.sessions[paneId]
        l == w.lifecycles[paneId]
    IN IF s = NoSess THEN w
       ELSE IF w.sess[s].isPersistentBackend /\ w.sess[s].isAlive
       THEN LET w1 == [w EXCEPT !.sess[s].cleanupTimeout = FALSE]
                w2 == IF l # NoLc THEN [detach(w1, l) EXCEPT !.lifecycles[paneId] = NoLc] ELSE w1
            IN [w2 EXCEPT !.sess[s].isExpectedDetach = TRUE, !.sess[s].isAlive = FALSE,
                          !.mtasks = @ \cup {MTask("detach", "closeForDetach", paneId, s, NoPty)}]
       ELSE w

\* detach() after `await closeSessionHistoryForDetach`
detachHistoryClosed(w, t) ==
    ptyKill([w EXCEPT !.mtasks = @ \ {t}], w.sess[t.sess].pty)

\* ------------------------------------ TerminalManager: detachAll, cleanup
\* the entries that the loop of detachAll or cleanup has still to visit
Todo(w) == {p \in w.down.todo : w.sessions[p] # NoSess}

RECURSIVE closeAll(_, _)
\* cleanup(): lifecycle.close() for each of this.lifecycles.values()
closeAll(w, ps) ==
    IF ps = {} THEN w
    ELSE LET p == CHOOSE x \in ps : TRUE
         IN closeAll(close(w, w.lifecycles[p]), ps \ {p})

RECURSIVE mgrCleanupLoop(_, _)
\* cleanup(): the loop from its next entry up to the next await that
\* suspends it; killThrows: session.pty.kill() throws
mgrCleanupLoop(w, killThrows) ==
    IF Todo(w) = {} THEN mgrCleanupAwaitAll([w EXCEPT !.down.sess = NoSess])
    ELSE LET paneId == CHOOSE p \in Todo(w) : TRUE
             s == w.sessions[paneId]
             w1 == [w EXCEPT !.down.todo = @ \ {paneId}, !.down.pane = paneId, !.down.sess = s]
         IN IF w.sess[s].isAlive
            THEN IF killThrows
                 THEN Emit([w1 EXCEPT !.down = NoDown], "throw", "*", "cleanup")
                 ELSE mgrCleanupLoop(ptyKill([w1 EXCEPT !.down.wait[paneId] = "exitWait"],
                                             w.sess[s].pty),
                                     killThrows)
            ELSE [closeSessionHistory(w1, s) EXCEPT !.down.pc = "closeHistory"]

mgrCleanup(w, killThrows) ==
    LET w1 == closeAll(w, {p \in Panes : w.lifecycles[p] # NoLc})
        w2 == [w1 EXCEPT !.lifecycles = [p \in Panes |-> NoLc],
                         !.down = [NoDown EXCEPT !.call = "cleanup",
                                                 !.todo = {p \in Panes : w.sessions[p] # NoSess}]]
    IN mgrCleanupLoop(w2, killThrows)

\* cleanup() after `await closeSessionHistory`
mgrCleanupHistoryClosed(w) == mgrCleanupLoop(w, FALSE)

\* an operation `by` threw or rejected in this step
Threw(w, by) ==
    \E i \in 1..Len(w.emitted) : w.emitted[i].ev = "throw" /\ w.emitted[i].kind = by

\* detachAll() after its loop
detachAllDone(w) ==
    Emit([w EXCEPT !.lifecycles = [p \in Panes |-> NoLc],
                   !.sessions = [p \in Panes |-> NoSess],
                   !.down = NoDown],
         "return", "*", "detachAll")

RECURSIVE detachAllLoop(_, _)
RECURSIVE detachAllKilled(_, _)
\* detachAll(): the loop from its next entry up to the next await that
\* suspends it
detachAllLoop(w, killThrows) ==
    IF Todo(w) = {} THEN detachAllDone(w)
    ELSE LET paneId == CHOOSE p \in Todo(w) : TRUE
             s == w.sessions[paneId]
             l == w.lifecycles[paneId]
             w1 == [w EXCEPT !.down.todo = @ \ {paneId}, !.down.pane = paneId, !.down.sess = s]
             w2 == IF l # NoLc THEN detach(w1, l) ELSE w1
         IN IF w.sess[s].isPersistentBackend /\ w.sess[s].isAlive
            THEN [w2 EXCEPT !.sess[s].isExpectedDetach = TRUE, !.sess[s].isAlive = FALSE,
                            !.down.pc = "closeForDetach"]
            ELSE detachAllKilled(kill(w2, "detachAll", paneId, FALSE, killThrows), killThrows)

\* detachAll() at `await this.kill({ paneId })`: the kill has thrown, is
\* suspended, or has returned
detachAllKilled(w, killThrows) ==
    IF Threw(w, "detachAll") THEN [w EXCEPT !.down = NoDown]
    ELSE IF \E t \in w.mtasks : t.kind = "detachAll" THEN [w EXCEPT !.down.pc = "kill"]
    ELSE detachAllLoop([w EXCEPT !.down.sess = NoSess], killThrows)

detachAll(w, killThrows) ==
    detachAllLoop([w EXCEPT !.down = [NoDown EXCEPT !.call = "detachAll",
                                                    !.todo = {p \in Panes : w.sessions[p] # NoSess}]],
                  killThrows)

\* detachAll() after `await closeSessionHistoryForDetach`
detachAllHistoryClosed(w) ==
    detachAllLoop([ptyKill(w, w.sess[w.down.sess].pty) EXCEPT !.down.sess = NoSess], FALSE)

\* the exit handler respawning whether or not the fallback shell was used
sessionExitRespawnsAgain(w, p, crashedQuickly) ==
    LET s == w.ptys[p].sess
        w0 == [w EXCEPT !.sess[s].isAlive = FALSE]
        w1 == closeSessionHistory(w0, s)
        pane == w.sess[s].pane
    IN IF w.sess[s].isPersistentBackend THEN w0
       ELSE IF crashedQuickly
       THEN [w1 EXCEPT !.mtasks = @ \cup {MTask("fallback", "closeHistory", pane, s, NoPty)}]
       ELSE [w1 EXCEPT !.mtasks = @ \cup {MTask("exit", "closeHistory", pane, s, NoPty)}]

\* setupExitHandler's handler up to its first await; crashedQuickly is decided
\* by the exit code and the time since the spawn.  The handler is installed by
\* doCreateSession only, so its session is never a persistent one.
sessionExit(w, p, crashedQuickly) ==
    LET s == w.ptys[p].sess
        w0 == [w EXCEPT !.sess[s].isAlive = FALSE]
        w1 == closeSessionHistory(w0, s)
        pane == w.sess[s].pane
    IN IF w.sess[s].isPersistentBackend THEN w0
       ELSE IF crashedQuickly /\ ~w.sess[s].usedFallback
       THEN [w1 EXCEPT !.mtasks = @ \cup {MTask("fallback", "closeHistory", pane, s, NoPty)}]
       ELSE [w1 EXCEPT !.mtasks = @ \cup {MTask("exit", "closeHistory", pane, s, NoPty)}]

\* fallback path after `await closeSessionHistory`: sessions.delete, doCreateSession
fallbackHistoryClosed(w, t) ==
    [w EXCEPT !.sessions[t.pane] = NoSess,
              !.mtasks = (@ \ {t}) \cup {[t EXCEPT !.pc = "spawnPre"]}]

\* normal exit path after `await closeSessionHistory`: the 5 s cleanup timer is armed
exitHistoryClosed(w, t) ==
    LET w1 == Emit([w EXCEPT !.mtasks = @ \ {t}], "exit", t.pane, "exit")
    IN [w1 EXCEPT !.sess[t.sess].cleanupTimeout = TRUE]

\* the cleanup timer fires
cleanupTimeoutFired(w, s) ==
    [w EXCEPT !.sessions[w.sess[s].pane] = NoSess, !.sess[s].cleanupTimeout = FALSE]

\* ------------------------------------ TerminalManager: killByWorkspaceId
\* killSessionWithTimeout up to its return; killThrows: session.pty.kill() throws
killSessionWithTimeout(w0, pane, killThrows) ==
    LET s == w0.sessions[pane]
        w == [w0 EXCEPT !.sess[s].deleteHistoryOnExit = TRUE]
        w1 == [w EXCEPT !.kbw.sess[pane] = s, !.kbw.wait[pane] = "sigterm"]
    IN IF ~w.sess[s].isAlive
       THEN [closeSessionHistory(w, s) EXCEPT !.kbw.sess[pane] = s,
                                                !.kbw.wait[pane] = "closeHistory"]
       ELSE IF killThrows
       THEN cleanup(closeSessionHistory([w1 EXCEPT !.sess[s].isAlive = FALSE,
                                                   !.sessions[pane] = NoSess], s), pane, FALSE)
       ELSE ptyKill(w1, w.sess[s].pty)

RECURSIVE killAll(_, _, _)
killAll(w, S, killThrows) ==
    IF S = {} THEN w
    ELSE LET pane == CHOOSE p \in S : TRUE
         IN killAll(killSessionWithTimeout(w, pane, killThrows), S \ {pane}, killThrows)

\* killByWorkspaceId up to its first suspension (one workspace holds every pane)
killByWorkspaceId(w, killThrows) ==
    LET sessionsToKill == {pane \in Panes : w.sessions[pane] # NoSess}
        w1 == [w EXCEPT !.kbw.call = "killing",
                        !.kbw.wait = [p \in Panes |-> IF p \in sessionsToKill THEN "starting"
                                                      ELSE "none"]]
    IN IF sessionsToKill = {} THEN [w EXCEPT !.kbw.call = "backend"]
       ELSE killAll(w1, sessionsToKill, killThrows)

\* killSessionWithTimeout on a dead session, after `await closeSessionHistory`
killHistoryDeleted(w, pane) ==
    resolve([w EXCEPT !.sessions[pane] = NoSess], pane, TRUE)

\* the first timer clearing the registry entry at once, without SIGKILL and the second wait
sigtermTimeoutForceClears(w, pane) ==
    LET s == w.kbw.sess[pane]
    IN IF ~w.sess[s].isAlive THEN [w EXCEPT !.kbw.wait[pane] = "listening"]
       ELSE cleanup(closeSessionHistory([w EXCEPT !.sess[s].isAlive = FALSE,
                                                  !.sessions[pane] = NoSess], s), pane, FALSE)

\* the 2 s timer fires
sigtermTimeout(w, pane) ==
    LET s == w.kbw.sess[pane]
    IN IF ~w.sess[s].isAlive THEN [w EXCEPT !.kbw.wait[pane] = "listening"]
       ELSE [ptySignal(w, w.sess[s].pty, "SIGKILL") EXCEPT !.kbw.wait[pane] = "sigkill"]

\* the second timer reporting a forced clean-up as a kill
sigkillTimeoutCountsKilled(w, pane) ==
    LET s == w.kbw.sess[pane]
        w1 == IF w.sess[s].isAlive
              THEN closeSessionHistory([w EXCEPT !.sess[s].isAlive = FALSE,
                                                 !.sessions[pane] = NoSess], s)
              ELSE w
    IN cleanup(w1, pane, TRUE)

\* the 500 ms timer fires
sigkillTimeout(w, pane) ==
    LET s == w.kbw.sess[pane]
        w1 == IF w.sess[s].isAlive
              THEN closeSessionHistory([w EXCEPT !.sess[s].isAlive = FALSE,
                                                 !.sessions[pane] = NoSess], s)
              ELSE w
    IN cleanup(w1, pane, FALSE)

\* processPersistence.killByWorkspace: the backend sessions of the workspace end
killByWorkspace(w) == [w EXCEPT !.backend = [p \in Panes |-> FALSE]]

Count(w) ==
    [killed |-> Cardinality({p \in Panes : w.kbw.wait[p] = "true"}),
     failed |-> Cardinality({p \in Panes : w.kbw.wait[p] = "false"}),
     matched |-> Cardinality({p \in Panes : w.kbw.wait[p] # "none"})]

\* killByWorkspaceId after `await processPersistence.killByWorkspace`
killByWorkspaceIdReturn(w) == [killByWorkspace(w) EXCEPT !.kbw = NoKbw]

\* ------------------------------------------------------------- actions
Created == {l \in LcIds : lc[l].created}

\* direct calls of the Lifecycle's public methods by its owner
LEnsureAttached(l, g) ==
    /\ l \in Created
    /\ Can("ops")
    /\ Apply(Did(ensureAttached(Spend(W, "ops"), l, g), "ensureAttached", l,
                 ensureAttachedKind(W, l) = "attach", FALSE, g))

LRetry(l) ==
    /\ l \in Created
    /\ Can("ops")
    /\ Apply(Did(retry(Spend(W, "ops"), l), "retry", l, retryKind(W, l) = "attach", FALSE,
                 lc[l].lastDimensions))

LWrite(l) ==
    /\ l \in Created
    /\ Can("ops")
    /\ Apply(Did(Spend(W, "ops"), "write", l, writeAllowed(lc[l]), FALSE, DefaultDims))

LResize(l, g) ==
    /\ l \in Created
    /\ Can("ops")
    /\ Apply(Did(resize(Spend(W, "ops"), l, g), "resize", l, resizeAllowed(lc[l]), FALSE, g))

LDetach(l) ==
    /\ l \in Created
    /\ Can("ops")
    /\ Apply(Did(detach(Spend(W, "ops"), l), "detach", l, ~lc[l].disposed, FALSE, DefaultDims))

LClose(l) ==
    /\ l \in Created
    /\ Can("ops")
    /\ Apply(Did(close(Spend(W, "ops"), l), "close", l, TRUE, FALSE, DefaultDims))

\* continuations of the Lifecycle and its environment
PtyExit(p) ==
    /\ ptys[p].st = "live"
    /\ ptys[p].lc # NoLc
    /\ ptys[p].signalled \/ Can("faults")
    /\ LET w1 == IF ptys[p].signalled THEN W ELSE Spend(W, "faults")
       IN Apply(Did([onExit(w1, p) EXCEPT !.ptys[p] = DeadPty], "onExit", ptys[p].lc, TRUE,
                    TRUE, DefaultDims))

ExitSessionChecked(t) ==
    /\ t \in tasks /\ t.pc = "exitCheck"
    /\ Apply(Did(onExitSessionChecked(W, t), "onExitSessionChecked", t.lc,
                 backend[lc[t.lc].pane], TRUE, DefaultDims))

BackoffElapsed(t) ==
    /\ t \in tasks /\ t.pc = "backoff"
    /\ Apply(Did(onExitBackoffElapsed(W, t), "reconnect", t.lc, ~lc[t.lc].disposed, TRUE,
                 t.geom))

AttachSessionChecked(t) ==
    /\ t \in tasks /\ t.pc = "sessionExists"
    /\ Apply(Did(doAttachSessionChecked(W, t), "doAttachSessionChecked", t.lc,
                 backend[lc[t.lc].pane], t.org # 0, DefaultDims))

AttachResolved(t) ==
    /\ t \in tasks /\ t.pc = "attachSession"
    /\ backend[lc[t.lc].pane]
    /\ FreePtys(W) # {}
    /\ FreeSess(W) # {} \/ Waiters(W, t.lc) = {} \/ t.org # 0
    /\ LET p == Min(FreePtys(W))
       IN Apply(Did(doAttachResolved(W, t, p), "doAttachResolved", t.lc, TRUE, t.org # 0,
                    DefaultDims))

AttachRejected(t, error) ==
    /\ t \in tasks /\ t.pc \in {"sessionExists", "attachSession"}
    /\ Can("faults")
    /\ LET w1 == Did(doAttachRejected(Spend(W, "faults"), t, error), "doAttachRejected", t.lc,
                     FALSE, t.org # 0, DefaultDims)
       IN Apply([w1 EXCEPT !.last.err = error])

BackendSessionEnds(pane) ==
    /\ backend[pane]
    /\ Can("faults")
    /\ Apply(Did([Spend(W, "faults") EXCEPT !.backend[pane] = FALSE], "backendSessionEnds", NoLc, TRUE, FALSE,
                 DefaultDims))

\* TerminalManager operations and their continuations
Mgr(w, name) == Did(w, name, NoLc, TRUE, FALSE, DefaultDims)

MCreateOrAttach(pane, g) ==
    /\ ReusableCalls(W) # {}
    /\ Can("ops")
    /\ Apply(Mgr(createOrAttach(Spend(W, "ops"), Min(ReusableCalls(W)), pane, g, persist), "manager"))

CallSessionExists(c) ==
    /\ calls[c].pc = "sessionExists1"
    /\ Apply(Mgr([W EXCEPT !.calls[c].pc = IF backend[calls[c].pane] THEN "capture"
                                           ELSE "createSession"], "manager"))

\* processPersistence.sessionExists throws: the catch block kills the session
CallSessionExistsFailed(c) ==
    /\ calls[c].pc = "sessionExists1"
    /\ Can("faults")
    /\ Apply(Mgr([Spend(W, "faults") EXCEPT !.calls[c].pc = "kill1"], "manager"))

CallCaptured(c) ==
    /\ calls[c].pc = "capture"
    /\ lifecycles[calls[c].pane] # NoLc \/ FreeLcs(W) # {}
    /\ Apply(Mgr(startAttach(W, c, "attach1"), "manager"))

CallKilled(c) ==
    /\ calls[c].pc = "kill1"
    /\ Apply(Mgr([W EXCEPT !.backend[calls[c].pane] = FALSE,
                           !.lifecycles[calls[c].pane] = NoLc,
                           !.calls[c].pc = "createSession"], "manager"))

CallSessionCreated(c) ==
    /\ calls[c].pc = "createSession"
    /\ ~backend[calls[c].pane]
    /\ lifecycles[calls[c].pane] # NoLc \/ FreeLcs(W) # {}
    /\ Apply(Mgr(startAttach([W EXCEPT !.backend[calls[c].pane] = TRUE], c, "attach2"), "manager"))

\* a failure of processPersistence.createSession ending the call, with no
\* direct spawn
CallCreateFailedRejects(c) ==
    /\ calls[c].pc = "createSession"
    /\ Can("faults")
    /\ Apply(Mgr(finishCall([Spend(W, "faults") EXCEPT !.lifecycles[calls[c].pane] = NoLc],
                            c, NoResult, TRUE), "manager"))

CallCreateFailed(c) ==
    /\ calls[c].pc = "createSession"
    /\ Can("faults")
    /\ Apply(Mgr([Spend(W, "faults") EXCEPT !.lifecycles[calls[c].pane] = NoLc,
                           !.calls[c].pc = "spawnPre"], "manager"))

CallSetup(c) ==
    /\ calls[c].pc \in {"setup1", "setup2"}
    /\ FreeSess(W) # {}
    /\ Apply(Mgr(setupPersistentSessionWithLifecycle(W, c, Min(FreeSess(W))), "manager"))

CallSpawn(c) ==
    /\ calls[c].pc = "spawnPre"
    /\ FreePtys(W) # {}
    /\ LET p == Min(FreePtys(W))
           w1 == spawnPty(W, p, calls[c].pane)
       IN Apply(Mgr([w1 EXCEPT !.calls[c].pc = "spawnPost", !.calls[c].pty = p,
                               !.spawns = IF @ < 2 THEN @ + 1 ELSE @], "manager"))

CallSpawned(c, recovered) ==
    /\ calls[c].pc = "spawnPost"
    /\ FreeSess(W) # {}
    /\ LET w1 == doCreateSession(W, calls[c].pane, calls[c].pty, Min(FreeSess(W)),
                                 recovered, FALSE)
       IN Apply(Mgr(finishCall(w1, c, [isNew |-> TRUE, wasRecovered |-> recovered], TRUE),
                    "manager"))

MKill(pane) ==
    /\ sessions[pane] # NoSess
    /\ Can("ops")
    /\ Apply(Mgr(kill(Spend(W, "ops"), "kill", pane, FALSE, FALSE), "mkill"))

\* kill({paneId, deleteHistory: true})
MKillDeleteHistory(pane) ==
    /\ sessions[pane] # NoSess
    /\ Can("ops")
    /\ Apply(Mgr(kill(Spend(W, "ops"), "kill", pane, TRUE, FALSE), "mkillDeleteHistory"))

\* kill({paneId}) whose session.pty.kill() throws
MKillPtyThrows(pane) ==
    /\ sessions[pane] # NoSess
    /\ Can("ops") /\ Can("faults")
    /\ LET w1 == kill(Spend(Spend(W, "faults"), "ops"), "kill", pane, FALSE, TRUE)
       IN /\ Threw(w1, "kill")
          /\ Apply(Mgr(w1, "mkillPtyThrows"))

KillSessionKilled(t) ==
    /\ t \in mtasks /\ t.kind = "kill" /\ t.pc = "killSession"
    /\ Apply(Mgr(killSessionKilled(W, t), "manager"))

KillHistoryClosed(t) ==
    /\ t \in mtasks /\ t.kind = "kill" /\ t.pc = "closeHistory"
    /\ Apply(Mgr(killHistoryClosed(W, t), "manager"))

MWrite(pane) ==
    /\ Can("ops")
    /\ Apply([Mgr(Spend(W, "ops"), "mwrite") EXCEPT !.last.out = mgrWrite(W, pane)])

MDetach(pane) ==
    /\ sessions[pane] # NoSess
    /\ Can("ops")
    /\ Apply(Mgr(mgrDetach(Spend(W, "ops"), pane), "mdetach"))

DetachHistoryClosed(t) ==
    /\ t \in mtasks /\ t.kind = "detach"
    /\ Apply(Mgr(detachHistoryClosed(W, t), "detachHistoryClosed"))

SessionExit(p, crashedQuickly) ==
    /\ ptys[p].st = "live"
    /\ ptys[p].lc = NoLc
    /\ ptys[p].signalled \/ Can("faults")
    /\ LET w0 == IF ptys[p].signalled THEN W ELSE Spend(W, "faults")
           w1 == IF ptys[p].sess # NoSess THEN sessionExit(w0, p, crashedQuickly) ELSE w0
       IN Apply(Mgr([w1 EXCEPT !.ptys[p] = DeadPty], "sessionExit"))

FallbackHistoryClosed(t) ==
    /\ t \in mtasks /\ t.kind = "fallback" /\ t.pc = "closeHistory"
    /\ Apply(Mgr(fallbackHistoryClosed(W, t), "manager"))

FallbackSpawn(t) ==
    /\ t \in mtasks /\ t.kind = "fallback" /\ t.pc = "spawnPre"
    /\ FreePtys(W) # {}
    /\ LET p == Min(FreePtys(W))
           w1 == spawnPty(W, p, t.pane)
       IN Apply(Mgr([w1 EXCEPT !.mtasks = (@ \ {t}) \cup {[t EXCEPT !.pc = "spawnPost", !.pty = p]}],
                    "manager"))

FallbackSpawned(t, recovered) ==
    /\ t \in mtasks /\ t.kind = "fallback" /\ t.pc = "spawnPost"
    /\ LET w0 == [W EXCEPT !.mtasks = @ \ {t}]
           free == FreeSess(Collect(w0)) \cup FreeSess(W)
       IN /\ free # {}
          /\ Apply(Mgr(doCreateSession(w0, t.pane, t.pty, Min(free), recovered, TRUE), "fallbackSpawned"))

ExitHistoryClosed(t) ==
    /\ t \in mtasks /\ t.kind = "exit"
    /\ Apply(Mgr(exitHistoryClosed(W, t), "manager"))

\* detachAll(); killThrows: a session.pty.kill() of its kill() calls throws
MDetachAll(killThrows) ==
    /\ down.call = "idle"
    /\ Can("ops")
    /\ ~killThrows \/ Can("faults")
    /\ LET w1 == IF killThrows THEN Spend(W, "faults") ELSE W
           w2 == detachAll(Spend(w1, "ops"), killThrows)
       IN /\ killThrows => Threw(w2, "detachAll")
          /\ Apply(Mgr(w2, "detachAll"))

DetachAllHistoryClosed ==
    /\ down.call = "detachAll" /\ down.pc = "closeForDetach"
    /\ Apply(Mgr(detachAllHistoryClosed(W), "detachAllHistoryClosed"))

DetachAllKillSessionKilled(t) ==
    /\ t \in mtasks /\ t.kind = "detachAll" /\ t.pc = "killSession"
    /\ Apply(Mgr(detachAllKilled(killSessionKilled(W, t), FALSE), "detachAllKillSessionKilled"))

DetachAllKillHistoryClosed(t) ==
    /\ t \in mtasks /\ t.kind = "detachAll" /\ t.pc = "closeHistory"
    /\ Apply(Mgr(detachAllKilled(killHistoryClosed(W, t), FALSE), "detachAllKillHistoryClosed"))

\* cleanup(), called while no killSessionWithTimeout listens for an exit
\* (removeAllListeners would take its listener away)
MCleanup(killThrows) ==
    /\ down.call = "idle"
    /\ \A p \in Panes : kbw.wait[p] \notin {"sigterm", "sigkill", "listening"}
    /\ Can("ops")
    /\ ~killThrows \/ Can("faults")
    /\ LET w1 == IF killThrows THEN Spend(W, "faults") ELSE W
           w2 == mgrCleanup(Spend(w1, "ops"), killThrows)
       IN /\ killThrows => Threw(w2, "cleanup")
          /\ Apply(Mgr(w2, "cleanup"))

CleanupHistoryClosed ==
    /\ down.call = "cleanup" /\ down.pc = "closeHistory"
    /\ Apply(Mgr(mgrCleanupHistoryClosed(W), "cleanupHistoryClosed"))

\* the 2 s timer of an exit promise of cleanup()
CleanupExitTimeout(pane) ==
    /\ down.call = "cleanup" /\ down.wait[pane] = "exitWait"
    /\ Apply(Mgr(exitHandler(W, pane), "cleanupExitTimeout"))

MKillByWorkspaceId(killThrows) ==
    /\ kbw.call = "idle"
    /\ Can("ops")
    /\ ~killThrows \/ Can("faults")
    /\ LET w1 == IF killThrows THEN Spend(W, "faults") ELSE W
       IN Apply(Mgr(killByWorkspaceId(Spend(w1, "ops"), killThrows), "killByWorkspaceId"))

KillHistoryDeleted(pane) ==
    /\ kbw.wait[pane] = "closeHistory"
    /\ Apply(Mgr(killHistoryDeleted(W, pane), "killHistoryDeleted"))

SigtermTimeout(pane) ==
    /\ kbw.wait[pane] = "sigterm"
    /\ Apply(Mgr(sigtermTimeout(W, pane), "sigtermTimeout"))

SigkillTimeout(pane) ==
    /\ kbw.wait[pane] = "sigkill"
    /\ Apply(Mgr(sigkillTimeout(W, pane), "sigkillTimeout"))

KillByWorkspaceIdReturn ==
    /\ kbw.call = "backend"
    /\ Apply([Mgr(killByWorkspaceIdReturn(W), "killByWorkspaceIdReturn") EXCEPT !.last.res = Count(W)])

CleanupTimeoutFired(s) ==
    /\ sess[s].created /\ sess[s].cleanupTimeout
    /\ Apply(Mgr(cleanupTimeoutFired(W, s), "manager"))

\* the fallback spawn throws: the handler goes on with the normal exit path
FallbackSpawnFailed(t) ==
    /\ t \in mtasks /\ t.kind = "fallback" /\ t.pc = "spawnPre"
    /\ Can("faults")
    /\ Apply(Mgr([closeSessionHistory(Spend(W, "faults"), t.sess) EXCEPT
                      !.mtasks = (@ \ {t}) \cup {[t EXCEPT !.kind = "exit", !.pc = "closeHistory"]}],
                 "fallbackSpawnFailed"))

\* History Writers of one (workspaceId, paneId)
WriterIds == 1..(MaxReinits + 1)
NoWriter == 0
NoChunk == <<"none">>

NoTerm == [backed |-> FALSE, historyWriter |-> NoWriter,
           writer |-> [h \in WriterIds |-> "free"], reinit |-> {},
           scrollback |-> <<>>, batch |-> <<>>, delivered |-> NoChunk,
           chunks |-> 0, reinits |-> 0, late |-> FALSE]

\* no string has been given to the sanitizer
NoText == [pc |-> "none", data |-> <<>>, once |-> <<>>, twice |-> <<>>]

SchedPanes == {"a", "b"}
Priorities == {0, 1}
TaskIds == 1..MaxTasks
NoTask == 0

\* an AttachTask object; st is where it is: in the queue and never started
\* ("queued"), started and not yet done ("running"), or done while its caller
\* still holds its callbacks ("finished").  A task that was shifted off the
\* queue without being run, or is done and forgotten by its caller, is free
\* again.  sync says whether its run callback calls done before it returns
NoTaskRec == [st |-> "free", paneId |-> "a", priority |-> 0, enqueuedAt |-> 0,
              canceled |-> FALSE, sync |-> FALSE]

\* the module-level state of the scheduler; arrival (the queued tasks in the
\* order they were pushed) and ordered (every start of the last call took the
\* task the contract names) are observers, and so is spared (the task that the
\* pane of the last cancel function mapped to, when that was another task)
NoSched == [inFlight |-> 0, queue |-> <<>>,
            pendingByPaneId |-> [p \in SchedPanes |-> NoTask],
            task |-> [t \in TaskIds |-> NoTaskRec],
            clock |-> 0, arrival |-> <<>>, ordered |-> TRUE, spared |-> NoTask]

\* ------------------------------------------------------- initial states
InitManager ==
    /\ sessions = [p \in Panes |-> NoSess]
    /\ sess = [s \in SessIds |-> NoSession]
    /\ pendingSessions = [p \in Panes |-> NoCall]
    /\ calls = [c \in CallIds |-> NoCallRec]
    /\ tasks = {}
    /\ mtasks = {}
    /\ kbw = NoKbw
    /\ down = NoDown
    /\ spawns = 0
    /\ ptys = [p \in PtyIds |-> FreePty]
    /\ emitted = <<>>
    /\ last = Op("init", NoLc, TRUE, FALSE, DefaultDims)
    /\ sched = NoSched

\* a TerminalManager after construction; the backend may hold a session of an
\* earlier run of the application
Init ==
    /\ InitManager
    /\ text = NoText
    /\ term = NoTerm
    /\ persist \in BOOLEAN
    /\ dims = {DefaultDims}
    /\ budget = [ops |-> MaxOps, faults |-> MaxFaults, ptys |-> MaxPtys]
    /\ backend \in [Panes -> BOOLEAN]
    /\ lifecycles = [p \in Panes |-> NoLc]
    /\ lc = [l \in LcIds |-> NoLifecycle]

\* the same, for behaviours that include killByWorkspaceId
InitWorkspace ==
    /\ InitManager
    /\ text = NoText
    /\ term = NoTerm
    /\ persist \in BOOLEAN
    /\ dims = {DefaultDims}
    /\ budget = [ops |-> MaxWorkspaceOps, faults |-> MaxWorkspaceFaults, ptys |-> MaxPtys]
    /\ backend \in [Panes -> BOOLEAN]
    /\ lifecycles = [p \in Panes |-> NoLc]
    /\ lc = [l \in LcIds |-> NoLifecycle]

\* one Lifecycle constructed for an existing backend session, driven directly
InitLifecycle ==
    /\ InitManager
    /\ text = NoText
    /\ term = NoTerm
    /\ persist = TRUE
    /\ dims = {DefaultDims}
    /\ budget = Unlimited
    /\ backend = [p \in Panes |-> TRUE]
    /\ lifecycles = [p \in Panes |-> 1]
    /\ lc = [l \in LcIds |-> IF l = 1 THEN NewLifecycle("p1") ELSE NoLifecycle]

\* the same, with callers that ask for different geometries and a bounded
\* number of environment failures
InitGeometry ==
    /\ InitManager
    /\ text = NoText
    /\ term = NoTerm
    /\ persist = TRUE
    /\ dims = Geoms
    /\ budget = [ops |-> MaxOps, faults |-> MaxGeometryFaults, ptys |-> MaxPtys]
    /\ backend = [p \in Panes |-> TRUE]
    /\ lifecycles = [p \in Panes |-> 1]
    /\ lc = [l \in LcIds |-> IF l = 1 THEN NewLifecycle("p1") ELSE NoLifecycle]

Continuations ==
    \/ \E p \in PtyIds : PtyExit(p)
    \/ \E t \in tasks : ExitSessionChecked(t)
    \/ \E t \in tasks : BackoffElapsed(t)
    \/ \E t \in tasks : AttachSessionChecked(t)
    \/ \E t \in tasks : AttachResolved(t)
    \/ \E t \in tasks, error \in Thrown : AttachRejected(t, error)
    \/ \E pane \in Panes : BackendSessionEnds(pane)

NextLifecycle ==
    \/ \E l \in LcIds, g \in dims : LEnsureAttached(l, g)
    \/ \E l \in LcIds : LRetry(l)
    \/ \E l \in LcIds : LWrite(l)
    \/ \E l \in LcIds, g \in dims : LResize(l, g)
    \/ \E l \in LcIds : LDetach(l)
    \/ \E l \in LcIds : LClose(l)
    \/ Continuations

Next ==
    \/ \E pane \in Panes, g \in dims : MCreateOrAttach(pane, g)
    \/ \E c \in CallIds : CallSessionExists(c)
    \/ \E c \in CallIds : CallSessionExistsFailed(c)
    \/ \E c \in CallIds : CallCaptured(c)
    \/ \E c \in CallIds : CallKilled(c)
    \/ \E c \in CallIds : CallSessionCreated(c)
    \/ \E c \in CallIds : CallCreateFailed(c)
    \/ \E c \in CallIds : CallSetup(c)
    \/ \E c \in CallIds : CallSpawn(c)
    \/ \E c \in CallIds, recovered \in BOOLEAN : CallSpawned(c, recovered)
    \/ \E pane \in Panes : MKill(pane)
    \/ \E t \in mtasks : KillSessionKilled(t)
    \/ \E t \in mtasks : KillHistoryClosed(t)
    \/ \E pane \in Panes : MWrite(pane)
    \/ \E pane \in Panes : MDetach(pane)
    \/ \E t \in mtasks : DetachHistoryClosed(t)
    \/ \E p \in PtyIds, crashedQuickly \in BOOLEAN : SessionExit(p, crashedQuickly)
    \/ \E t \in mtasks : FallbackHistoryClosed(t)
    \/ \E t \in mtasks : FallbackSpawn(t)
    \/ \E t \in mtasks : FallbackSpawnFailed(t)
    \/ \E t \in mtasks, recovered \in BOOLEAN : FallbackSpawned(t, recovered)
    \/ \E t \in mtasks : ExitHistoryClosed(t)
    \/ \E s \in SessIds : CleanupTimeoutFired(s)
    \/ Continuations

\* the TerminalManager with a third process slot and smaller budgets
InitReattach ==
    /\ InitManager
    /\ text = NoText
    /\ term = NoTerm
    /\ persist \in BOOLEAN
    /\ dims = {DefaultDims}
    /\ budget = [ops |-> MaxReattachOps, faults |-> MaxReattachFaults, ptys |-> MaxReattachPtys]
    /\ backend \in [Panes -> BOOLEAN]
    /\ lifecycles = [p \in Panes |-> NoLc]
    /\ lc = [l \in LcIds |-> NoLifecycle]

\* the TerminalManager with killByWorkspaceId among its operations
NextWorkspace ==
    \/ Next
    \/ \E killThrows \in BOOLEAN : MKillByWorkspaceId(killThrows)
    \/ \E pane \in Panes : KillHistoryDeleted(pane)
    \/ \E pane \in Panes : SigtermTimeout(pane)
    \/ \E pane \in Panes : SigkillTimeout(pane)
    \/ KillByWorkspaceIdReturn

Spec == Init /\ [][Next]_vars

SpecWorkspace == InitWorkspace /\ [][NextWorkspace]_vars

\* the same, with kill({paneId, deleteHistory: true}) among the operations
NextHistory ==
    \/ NextWorkspace
    \/ \E pane \in Panes : MKillDeleteHistory(pane)

SpecHistory == InitWorkspace /\ [][NextHistory]_vars
SpecReattach == InitReattach /\ [][Next]_vars

SpecLifecycle == InitLifecycle /\ [][NextLifecycle]_vars

SpecGeometry == InitGeometry /\ [][NextLifecycle]_vars

\* ------------------------------------------------------- attach scheduler
Range(q) == {q[i] : i \in 1..Len(q)}
Pos(q, t) == CHOOSE i \in 1..Len(q) : q[i] = t
Remove(q, t) == SelectSeq(q, LAMBDA x : x # t)
Front(q) == SubSeq(q, 1, Len(q) - 1)

\* the comparator given to queue.sort
compare(s, a, b) ==
    IF s.task[a].priority # s.task[b].priority
    THEN s.task[a].priority - s.task[b].priority
    ELSE s.task[a].enqueuedAt - s.task[b].enqueuedAt

\* Array.prototype.sort is stable: equal elements keep their order
RECURSIVE insert(_, _, _)
insert(s, q, t) ==
    IF q = <<>> THEN <<t>>
    ELSE IF compare(s, Head(q), t) <= 0 THEN <<Head(q)>> \o insert(s, Tail(q), t)
    ELSE <<t>> \o q

RECURSIVE sort(_, _)
sort(s, q) == IF q = <<>> THEN <<>> ELSE insert(s, sort(s, Front(q)), q[Len(q)])

\* the queued tasks that are neither canceled nor superseded
Candidates(s) ==
    {t \in Range(s.queue) : ~s.task[t].canceled /\ s.pendingByPaneId[s.task[t].paneId] = t}

\* t has the lowest priority number among them and, there, was pushed first
IsBest(s, t) ==
    /\ t \in Candidates(s)
    /\ \A u \in Candidates(s) \ {t} :
          \/ s.task[t].priority < s.task[u].priority
          \/ /\ s.task[t].priority = s.task[u].priority
             /\ Pos(s.arrival, t) < Pos(s.arrival, u)

\* a completion callback that does not pump
doneLeavesQueue(s0, task) ==
    CHOOSE r \in {
        LET pane == s.task[task].paneId
            s1 == IF s.pendingByPaneId[pane] = task
                  THEN [s EXCEPT !.pendingByPaneId[pane] = NoTask] ELSE s
        IN [s1 EXCEPT !.inFlight = IF @ - 1 > 0 THEN @ - 1 ELSE 0,
                      !.task[task].st = "finished"]
      : s \in {s0}} : TRUE

\* the caller lets go of a task that is done
Release(s, t) == [s EXCEPT !.task[t] = NoTaskRec]

RECURSIVE pump(_), done(_, _)
\* pump: the while loop; task.run(done) either calls done at once or returns.
\* (s ranges over the one value of the argument, which is so computed once.)
pump(s0) ==
    CHOOSE r \in {
        IF s.inFlight < MAX_CONCURRENT_ATTACHES /\ Len(s.queue) > 0
        THEN LET q == sort(s, s.queue)
                 task == Head(q)
                 s1 == [s EXCEPT !.queue = Tail(q), !.arrival = Remove(@, task)]
             IN IF s.task[task].canceled \/ s.pendingByPaneId[s.task[task].paneId] # task
                THEN pump(Release(s1, task))
                ELSE LET s2 == [s1 EXCEPT !.inFlight = @ + 1, !.task[task].st = "running",
                                          !.ordered = @ /\ IsBest(s, task)]
                     IN IF s.task[task].sync THEN pump(Release(done(s2, task), task))
                        ELSE pump(s2)
        ELSE s
      : s \in {s0}} : TRUE

\* the completion callback handed to task.run
done(s0, task) ==
    CHOOSE r \in {
        LET pane == s.task[task].paneId
            s1 == IF s.pendingByPaneId[pane] = task
                  THEN [s EXCEPT !.pendingByPaneId[pane] = NoTask] ELSE s
            s2 == [s1 EXCEPT !.inFlight = IF @ - 1 > 0 THEN @ - 1 ELSE 0,
                             !.task[task].st = "finished"]
        IN pump(s2)
      : s \in {s0}} : TRUE

\* scheduleTerminalAttach that pushes the new task and leaves the pending one alone
scheduleKeepsPending(s, t, paneId, priority, sync) ==
    LET task == [st |-> "queued", paneId |-> paneId, priority |-> priority,
                 enqueuedAt |-> s.clock, canceled |-> FALSE, sync |-> sync]
    IN pump([s EXCEPT !.task[t] = task, !.pendingByPaneId[paneId] = t,
                      !.queue = Append(@, t), !.arrival = Append(@, t)])

\* scheduleTerminalAttach({paneId, priority, run}), the new object being t
scheduleTerminalAttach(s, t, paneId, priority, sync) ==
    LET existing == s.pendingByPaneId[paneId]
        s1 == IF existing # NoTask
              THEN [s EXCEPT !.task[existing].canceled = TRUE,
                             !.pendingByPaneId[paneId] = NoTask]
              ELSE s
        task == [st |-> "queued", paneId |-> paneId, priority |-> priority,
                 enqueuedAt |-> s.clock, canceled |-> FALSE, sync |-> sync]
    IN pump([s1 EXCEPT !.task[t] = task, !.pendingByPaneId[paneId] = t,
                       !.queue = Append(@, t), !.arrival = Append(@, t)])

\* a cancel function that unmaps the pane whatever task it maps to
cancelFnUnmaps(s, t) ==
    LET pane == s.task[t].paneId
    IN [s EXCEPT !.task[t].canceled = TRUE, !.pendingByPaneId[pane] = NoTask,
                 !.spared = IF s.pendingByPaneId[pane] # t THEN s.pendingByPaneId[pane]
                            ELSE NoTask]

\* the function scheduleTerminalAttach returned for task t
cancelFn(s, t) ==
    LET pane == s.task[t].paneId
        s1 == [s EXCEPT !.task[t].canceled = TRUE,
                        !.spared = IF s.pendingByPaneId[pane] # t
                                   THEN s.pendingByPaneId[pane] ELSE NoTask]
    IN IF s.pendingByPaneId[pane] = t THEN [s1 EXCEPT !.pendingByPaneId[pane] = NoTask]
       ELSE s1

\* Date.now() values matter only through their differences among the queued
\* tasks: they are kept relative to the oldest one.  The fields nothing reads
\* any more are cleared: priority, enqueuedAt, run and canceled once a task has
\* left the queue
Normalise(s) ==
    LET stamps == {s.task[t].enqueuedAt : t \in Range(s.queue)} \cup {s.clock}
        m == Min(stamps)
    IN [s EXCEPT !.clock = @ - m,
                 !.task = [t \in TaskIds |->
                     IF t \in Range(s.queue) THEN [s.task[t] EXCEPT !.enqueuedAt = @ - m]
                     ELSE [NoTaskRec EXCEPT !.st = s.task[t].st,
                                            !.paneId = s.task[t].paneId]]]

Sched(s0) ==
    /\ \E s \in {s0} : sched' = Normalise(s)
    /\ UNCHANGED <<managerVars, text, term>>

\* the scheduler as a call finds it
Before == [sched EXCEPT !.ordered = TRUE, !.spared = NoTask]

FreeTasks == {t \in TaskIds : sched.task[t].st = "free"}

Schedule(paneId, priority, sync) ==
    /\ FreeTasks # {}
    /\ Sched(scheduleTerminalAttach(Before, Min(FreeTasks), paneId, priority, sync))


Cancel(t) ==
    /\ sched.task[t].st # "free"
    /\ Sched(cancelFn(Before, t))

FinishedTasks == {t \in TaskIds : sched.task[t].st = "finished"}

\* the first call of a task's completion callback; again says whether the run
\* callback keeps it to call it once more
Complete(t, again) ==
    /\ sched.task[t].st = "running"
    /\ again => Cardinality(FinishedTasks) < MaxHeld
    /\ Sched(IF again THEN done(Before, t) ELSE Release(done(Before, t), t))

\* a run callback calls done a second time
CompleteAgain(t) ==
    /\ sched.task[t].st = "finished"
    /\ Sched(Release(done(Before, t), t))

\* time passes between two calls
Tick ==
    /\ sched.clock < MaxClock
    /\ Sched([Before EXCEPT !.clock = @ + 1])

\* Date.now() is the wall clock: the system time is set back between two calls
ClockSetBack ==
    /\ sched.queue # <<>>
    /\ \A t \in Range(sched.queue) : sched.task[t].enqueuedAt - (sched.clock - 1) <= MaxClock
    /\ Sched([Before EXCEPT !.clock = @ - 1])

NextScheduler ==
    \/ \E paneId \in SchedPanes, priority \in Priorities, sync \in BOOLEAN :
          Schedule(paneId, priority, sync)
    \/ \E t \in TaskIds : Cancel(t)
    \/ \E t \in TaskIds, again \in BOOLEAN : Complete(t, again)
    \/ \E t \in TaskIds : CompleteAgain(t)

\* the renderer's scheduler module after it is loaded; the TerminalManager of
\* the main process is not involved
InitScheduler ==
    /\ InitManager
    /\ text = NoText
    /\ term = NoTerm
    /\ persist = TRUE
    /\ dims = {DefaultDims}
    /\ budget = Unlimited
    /\ backend = [p \in Panes |-> FALSE]
    /\ lifecycles = [p \in Panes |-> NoLc]
    /\ lc = [l \in LcIds |-> NoLifecycle]

SpecScheduler == InitScheduler /\ [][NextScheduler]_vars

\* the scheduler with time: calls that are made at different times, by callers
\* whose run callbacks return before they call done, and call it once
NextSchedulerClock ==
    \/ \E paneId \in SchedPanes, priority \in Priorities : Schedule(paneId, priority, FALSE)
    \/ \E t \in TaskIds : Cancel(t)
    \/ \E t \in TaskIds : Complete(t, FALSE)
    \/ Tick
    \/ ClockSetBack

SpecSchedulerClock == InitScheduler /\ [][NextSchedulerClock]_vars

\* the scheduler with callers that do not use the cancel function and whose
\* run callbacks call done once, some time after they were started: every
\* started task is completed in the end
NextSchedulerFair ==
    \/ \E paneId \in SchedPanes, priority \in Priorities : Schedule(paneId, priority, FALSE)
    \/ \E t \in TaskIds : Complete(t, FALSE)

SpecSchedulerFair ==
    /\ InitScheduler
    /\ [][NextSchedulerFair]_vars
    /\ \A t \in TaskIds : WF_vars(Complete(t, FALSE))

\* ================================================================ claims
\* the processes of a pane that run and have not been sent a kill signal
LivePtys(pane) ==
    {p \in PtyIds : ptys[p].st = "live" /\ ~ptys[p].signalled /\ ptys[p].pane = pane}

\* overlapping createOrAttach calls have started at most one process together
OneSpawn == spawns <= 1

\* a settled call that was issued while an earlier call was pending has the
\* result of that earlier call
SameResult ==
    \A c \in CallIds :
        (calls[c].pc = "done" /\ calls[c].after # NoCall /\ calls[calls[c].after].pc = "done")
            => calls[c].result = calls[calls[c].after].result

\* C1 (as stated): createOrAttach calls for a pane that overlap cause at most
\* one spawn or backend attach together, and a call issued while an earlier
\* one was pending resolves to the result of that earlier call.
C1_Dedup == OneSpawn /\ SameResult

AtMostOnePty == \A pane \in Panes : Cardinality(LivePtys(pane)) <= 1

AliveSessionHasPty ==
    \A pane \in Panes :
        (sessions[pane] # NoSess /\ sess[sessions[pane]].isAlive)
            => ptys[sess[sessions[pane]].pty].st = "live"

\* C2 (as stated): a pane never has two running PTY processes that were not
\* sent a kill signal, and the PTY of an alive registry session is running.
C2_OnePty == AtMostOnePty /\ AliveSessionHasPty

\* C3 (as stated): once a Lifecycle's state is closed it never changes again.
C3_ClosedIsTerminal ==
    [][\A l \in LcIds : lc[l].state = "closed" => lc'[l].state = "closed"]_vars

\* C4 (as stated): after close(), once the Lifecycle's pending continuations
\* have finished, it holds no PTY handle.
C4_NoResurrection ==
    \A l \in LcIds :
        (lc[l].disposed /\ ~\E t \in tasks : t.lc = l) => lc[l].ptyProcess = NoPty

\* C5 (as stated): a failed automatic reconnect attempt puts the Lifecycle in
\* failed only when it is the third attempt since the process exited.
C5_ThreeReconnects ==
    (last.op = "doAttachRejected" /\ last.auto) => lc[last.lc].attempts = MAX_RETRIES

\* C6 (as stated): failed -> connecting happens only in a retry() call, which
\* has set the retry counter to 0.
C6_FailedOnlyRetry ==
    [][\A l \in LcIds :
          (lc[l].state = "failed" /\ lc'[l].state = "connecting")
              => (last'.op = "retry" /\ lc'[l].retryCount = 0)]_vars

\* C7 (as stated): a Lifecycle has at most one backend attachSession call in
\* flight at any time.
C7_SingleFlight ==
    \A l \in LcIds : Cardinality({t \in tasks : t.lc = l /\ t.pc = "attachSession"}) <= 1

\* C8: Lifecycle.write delivers data to the PTY, and Lifecycle.resize reaches
\* the PTY, only when the state is connected; in every other state write throws.
C8_WriteOnlyConnected ==
    (last.op \in {"write", "resize"} /\ last.ok) => lc[last.lc].state = "connected"

C8_Witness ==
    /\ last.op = "write" /\ last.ok
    /\ lc[last.lc].state = "connected" /\ lc[last.lc].ptyProcess # NoPty

\* C9 (as stated): after resize(c, r), the next attach started by an automatic
\* reconnect or by retry() is made with the last requested geometry.
C9_ReattachUsesLastGeometry ==
    (last.op \in {"reconnect", "retry"} /\ last.ok /\ lc[last.lc].resized)
        => last.geom = lc[last.lc].lastDimensions

\* C10: detach() on a non-disposed Lifecycle signals only the PTY it held,
\* leaves the backend session alone, and ends disconnected with no PTY handle.
C10_DetachLocalOnly ==
    [][\A l \in LcIds :
          (last'.op = "detach" /\ last'.lc = l /\ last'.ok)
              => /\ lc'[l].state = "disconnected"
                 /\ lc'[l].ptyProcess = NoPty
                 /\ backend' = backend
                 /\ \A p \in PtyIds : ptys'[p] # ptys[p] => p = lc[l].ptyProcess]_vars

C10_Witness ==
    /\ last.op = "detach" /\ last.ok
    /\ lc[last.lc].state = "disconnected" /\ lc[last.lc].ptyProcess = NoPty
    /\ backend[lc[last.lc].pane]
    /\ \E p \in PtyIds : ptys[p].st = "live" /\ ptys[p].signalled /\ ptys[p].lc = last.lc

\* the error callbacks among the events of the last step
Errors == SelectSeq(emitted, LAMBDA e : e.ev = "onError")

\* C11: an attach attempt that ends does so in one of three ways: closed and no
\* attachSession call when the backend session is missing; connected with
\* retry counter 0 when attachSession returns; failed after exactly one error
\* callback that carries the class of the error when the backend throws.
C11_AttachOutcomes ==
    [][\A t \in tasks :
          (t \notin tasks' /\ t.pc \in {"sessionExists", "attachSession"})
              => \/ /\ last'.op = "doAttachSessionChecked" /\ t.pc = "sessionExists"
                    /\ backend[lc[t.lc].pane]
                    /\ [t EXCEPT !.pc = "attachSession"] \in tasks'
                 \/ /\ last'.op = "doAttachSessionChecked" /\ t.pc = "sessionExists"
                    /\ ~backend[lc[t.lc].pane]
                    /\ [t EXCEPT !.pc = "attachSession"] \notin tasks'
                    /\ lc'[t.lc].state = "closed"
                    /\ Errors' = <<>>
                 \/ /\ last'.op = "doAttachResolved" /\ t.pc = "attachSession"
                    /\ lc'[t.lc].state = "connected"
                    /\ lc'[t.lc].retryCount = 0
                    /\ Errors' = <<>>
                 \/ /\ last'.op = "doAttachRejected"
                    /\ lc'[t.lc].state = "failed"
                    /\ Errors' = <<Event("onError", lc[t.lc].pane, last'.err)>>]_vars

C11_Witness ==
    /\ last.op = "doAttachRejected"
    /\ lc[last.lc].state = "failed"
    /\ Errors = <<Event("onError", lc[last.lc].pane, "NO_SERVER")>>

\* C12: Manager.write throws when the pane has no registry entry or its session
\* is not alive; with a Lifecycle in connecting or reconnecting it returns
\* without writing; with a Lifecycle in another state that cannot take the
\* data it throws; data reaches a PTY in the remaining case only.
C12_WriteGating ==
    \A pane \in Panes :
        last.op = "mwrite" =>
            LET s == sessions[pane]
                l == lifecycles[pane]
                alive == s # NoSess /\ sess[s].isAlive
                writable == l = NoLc \/ (lc[l].state = "connected" /\ lc[l].ptyProcess # NoPty)
                transient == l # NoLc /\ lc[l].state \in {"connecting", "reconnecting"}
            IN /\ ~alive => last.out = "throw"
               /\ (alive /\ transient) => last.out = "dropped"
               /\ (alive /\ ~transient /\ ~writable) => last.out = "throw"
               /\ last.out = "written" <=> (alive /\ writable)

C12_Witness ==
    /\ last.op = "mwrite" /\ last.out = "dropped"
    /\ \E pane \in Panes :
          /\ sessions[pane] # NoSess /\ sess[sessions[pane]].isAlive
          /\ lifecycles[pane] # NoLc /\ lc[lifecycles[pane]].state = "reconnecting"

\* a killSessionWithTimeout promise that no timer and no pending continuation
\* of the program will settle: only a later exit of some process of the pane,
\* or a later call, can
Stranded(pane) ==
    /\ kbw.call = "killing"
    /\ kbw.wait[pane] = "listening"
    /\ tasks = {} /\ mtasks = {}
    /\ \A c \in CallIds : calls[c].pc \in {"free", "done"}
    /\ \A s \in SessIds : ~sess[s].cleanupTimeout

\* C13 (as stated): a killByWorkspaceId call returns whatever the processes do
\* and whatever interleaves with it: while it is pending, a timer of it is
\* armed or a continuation that settles it is still to run.
C13_AlwaysReturns == \A pane \in Panes : ~Stranded(pane)

KbwOps == {"killByWorkspaceId", "sigtermTimeout", "sigkillTimeout"}

\* this step sends SIGKILL to the process of the pane
SigkillSent(pane) ==
    \E i \in 1..Len(emitted') : emitted'[i] = Event("signal", pane, "SIGKILL")

\* this step of the escalation removes the pane's registry entry
ForceCleared(pane) ==
    /\ last'.op \in KbwOps
    /\ sessions[pane] # NoSess
    /\ sessions'[pane] = NoSess

\* SIGKILL goes out only from the first timer, with SIGTERM sent, no exit
\* confirmed and the session still alive
SigkillAfterFirstWait(pane) ==
    SigkillSent(pane) =>
        /\ last'.op = "sigtermTimeout"
        /\ kbw.wait[pane] = "sigterm"
        /\ sess[kbw.sess[pane]].isAlive

\* the entry is cleared by the second timer, with the session still alive,
\* and the session is counted failed
ClearedAfterSecondWait(pane) ==
    /\ last'.op = "sigkillTimeout"
    /\ kbw.wait[pane] = "sigkill"
    /\ sess[kbw.sess[pane]].isAlive
    /\ kbw'.wait[pane] = "false"

\* the entry is cleared by the call itself because sending SIGTERM threw:
\* no signal went out, and the session is counted failed
ClearedOnSigtermThrow(pane) ==
    /\ last'.op = "killByWorkspaceId"
    /\ sess[sessions[pane]].isAlive
    /\ \A i \in 1..Len(emitted') : emitted'[i].ev # "signal"
    /\ kbw'.wait[pane] = "false"

\* C14 (as stated): the escalation is ordered: SIGTERM first; SIGKILL only
\* after the first wait with the session still alive and no exit confirmed;
\* the registry entry is force-cleared only after the second wait with the
\* session still alive, and a force-cleared session is counted failed.
C14_OrderedEscalation ==
    [][\A pane \in Panes :
        /\ SigkillAfterFirstWait(pane)
        /\ ForceCleared(pane) => ClearedAfterSecondWait(pane)]_vars

\* C14 (amended): as stated, except that the entry is also force-cleared, and
\* the session counted failed, at once when sending SIGTERM throws.
C14_OrderedEscalationOrThrow ==
    [][\A pane \in Panes :
        /\ SigkillAfterFirstWait(pane)
        /\ ForceCleared(pane) =>
              ClearedAfterSecondWait(pane) \/ ClearedOnSigtermThrow(pane)]_vars

\* the second timer has force-cleared a session whose process ignored both signals
C14_Witness ==
    /\ last.op = "sigkillTimeout"
    /\ \E pane \in Panes :
          /\ kbw.wait[pane] = "false"
          /\ sessions[pane] = NoSess
          /\ LET s == kbw.sess[pane]
             IN /\ s # NoSess
                /\ ~sess[s].isAlive /\ ~sess[s].isExpectedDetach
                /\ ~sess[s].isPersistentBackend
                /\ sess[s].pty # NoPty
                /\ ptys[sess[s].pty].st = "live"

\* this step raises exit:pane
ExitEmitted(pane) ==
    \E i \in 1..Len(emitted') : emitted'[i].ev = "exit" /\ emitted'[i].pane = pane

\* every return reports killed + failed = the sessions matched at the start
CountsAddUp ==
    last'.op = "killByWorkspaceIdReturn" =>
        last'.res.killed + last'.res.failed = last'.res.matched

\* C15 (as stated): a session whose process ignored SIGTERM (it was alive at
\* the first timer and got SIGKILL) is counted killed when its escalation
\* ends; every return has killed + failed = matched.
C15_IgnoringSigtermCountsKilled ==
    [][/\ \A pane \in Panes :
             kbw.wait[pane] = "sigkill" /\ kbw'.wait[pane] # "sigkill"
                 => kbw'.wait[pane] = "true"
       /\ CountsAddUp]_vars

\* C15 (amended): such a session's escalation always has its second timer
\* armed, and ends either with exit:pane raised during the second wait, the
\* session counted killed, or with the second timer, the session counted
\* failed; every return has killed + failed = matched.
C15_IgnoringSigtermCounted ==
    [][/\ \A pane \in Panes :
             kbw.wait[pane] = "sigkill" =>
                 /\ kbw'.wait[pane] \in {"sigkill", "true", "false"}
                 /\ kbw'.wait[pane] = "true" <=> ExitEmitted(pane)
                 /\ kbw'.wait[pane] = "false" <=> last'.op = "sigkillTimeout"
       /\ CountsAddUp]_vars

\* a call has returned failed = 1 for a session that the second timer
\* resolved (no signal threw)
C15_Witness ==
    /\ last.op = "killByWorkspaceIdReturn"
    /\ budget.faults = MaxWorkspaceFaults
    /\ last.res = [killed |-> 0, failed |-> 1, matched |-> 1]
    /\ \A pane \in Panes : sessions[pane] = NoSess

\* some process received a signal in this step
SignalSent == \E i \in 1..Len(emitted') : emitted'[i].ev = "signal"

\* kill(paneId) leaves no Lifecycle of the pane in the Manager
KillRemovesLifecycle(pane) ==
    (last'.op = "mkill" /\ sessions[pane] # NoSess) => lifecycles'[pane] = NoLc

\* kill(paneId) of a persistent session asks the backend to kill its session
KillAsksBackend(pane) ==
    (last'.op = "mkill" /\ sessions[pane] # NoSess /\ sess[sessions[pane]].isPersistentBackend)
        => \E t \in mtasks' : t.kind = "kill" /\ t.pc = "killSession" /\ t.pane = pane

\* kill(paneId) of a dead session signals no process
KillOfDeadSendsNoSignal(pane) ==
    (last'.op = "mkill" /\ sessions[pane] # NoSess /\ ~sess[sessions[pane]].isAlive
        /\ lifecycles[pane] = NoLc)
        => ~SignalSent

\* when the process of a session that kill has signalled exits, the pane's
\* entry is on its way out of the registry: no replacement is being spawned
KilledExitClearsEntry(pane) ==
    \A p \in PtyIds :
        (/\ last'.op = "sessionExit"
         /\ ptys[p].st = "live" /\ ptys[p].signalled /\ ptys[p].pane = pane
         /\ ptys[p].sess # NoSess /\ ptys'[p].st # "live")
        => ~\E t \in mtasks' : t.kind = "fallback" /\ t.pane = pane

\* C16 (as stated): after kill(paneId) and the exit of the local process the
\* registry holds no entry for the pane, the Manager holds no Lifecycle for
\* it, a persistent session's backend session has been asked to be killed, and
\* kill on a dead session sends no signal.
C16_KillCleansUp ==
    [][\A pane \in Panes :
        /\ KillRemovesLifecycle(pane)
        /\ KillAsksBackend(pane)
        /\ KillOfDeadSendsNoSignal(pane)
        /\ KilledExitClearsEntry(pane)]_vars

\* Manager.detach is being applied to a persistent alive session of the pane
DetachOfPersistent(pane) ==
    /\ last'.op = "mdetach"
    /\ sessions[pane] # NoSess
    /\ sess[sessions[pane]].isPersistentBackend /\ sess[sessions[pane]].isAlive

\* Manager.detach is being applied to any other registered session
DetachOfOther(pane) ==
    /\ last'.op = "mdetach"
    /\ sessions[pane] # NoSess
    /\ ~(sess[sessions[pane]].isPersistentBackend /\ sess[sessions[pane]].isAlive)

\* the synchronous part of detach: flags, closeForDetach scheduled, nothing
\* asked of the backend, no exit event
DetachMarks(pane) ==
    DetachOfPersistent(pane) =>
        LET s == sessions[pane]
        IN /\ sessions'[pane] = s
           /\ sess'[s].isExpectedDetach /\ ~sess'[s].isAlive
           /\ mtasks' \ mtasks = {MTask("detach", "closeForDetach", pane, s, NoPty)}
           /\ backend' = backend
           /\ lifecycles'[pane] = NoLc
           /\ ~ExitEmitted(pane)

\* the rest of detach, and the exit of the process it killed, ask nothing of
\* the backend and raise no exit event
DetachTailQuiet(pane) ==
    (/\ last'.op \in {"detachHistoryClosed", "onExit"}
     /\ sessions[pane] # NoSess
     /\ sess[sessions[pane]].isExpectedDetach)
    => backend' = backend /\ ~ExitEmitted(pane)

\* detach of a non-persistent (or dead) session changes nothing
DetachFrame(pane) ==
    DetachOfOther(pane) =>
        /\ sessions' = sessions /\ lifecycles' = lifecycles /\ backend' = backend
        /\ sess'[sessions[pane]] = sess[sessions[pane]]
        /\ mtasks' = mtasks /\ tasks' = tasks
        /\ \A p \in PtyIds : ptys[p].st = "live" => ptys'[p] = ptys[p]
        /\ \A l \in LcIds : lifecycles[pane] = l => lc'[l] = lc[l]
        /\ emitted' = <<>>

ReattachResolves(c) ==
    /\ calls[c].pc \notin {"free", "done", "follow"}
    /\ calls'[c].pc = "done"
    /\ calls[c].existing # NoSess
    /\ sess[calls[c].existing].isPersistentBackend
    /\ sess[calls[c].existing].isExpectedDetach
    /\ budget'.faults = MaxReattachFaults
    /\ budget'.ops = MaxReattachOps - 3

\* the unsignalled live processes of the pane after this step
LivePtysAfter(pane) ==
    {p \in PtyIds : ptys'[p].st = "live" /\ ~ptys'[p].signalled /\ ptys'[p].pane = pane}

\* C18 (as stated): createOrAttach on a detached persistent session, also
\* before the old local process has exited, reports wasRecovered = true and
\* leaves exactly one alive attach process for the pane.
C18_ReattachAfterDetach ==
    [][\A c \in CallIds :
        ReattachResolves(c) =>
            /\ calls'[c].result.wasRecovered
            /\ Cardinality(LivePtysAfter(calls[c].pane)) = 1]_vars

\* the behaviour so far is one createOrAttach call and whatever failed in it
OnlyCall == budget.ops = MaxOps - 1

\* the call resolves in this step
Resolves(c) == calls[c].pc \notin {"free", "done"} /\ calls'[c].pc = "done"

\* a resolved call has left a session registered and alive for its pane
ResolvesWithSession(c) ==
    Resolves(c) =>
        LET pane == calls[c].pane
        IN /\ sessions'[pane] # NoSess
           /\ sess'[sessions'[pane]].isAlive
           /\ ~persist => ~sess'[sessions'[pane]].isPersistentBackend

\* a call waiting for a Lifecycle to attach waits for an attach in flight,
\* whose outcome wakes it; every other await is settled by the backend or
\* the history files
AwaitsSettle(c) ==
    calls'[c].pc \in {"attach1", "attach2"} =>
        \E t \in tasks' : t.lc = calls'[c].lc /\ t.org = 0

\* C19: createOrAttach never fails because of the persistence backend:
\* whatever fails among sessionExists, captureScrollback, createSession and
\* attachSession, the call goes on to resolve, with a session registered and
\* alive for the pane.
C19_PersistenceNeverFailsCall ==
    [][OnlyCall' => \A c \in CallIds : ResolvesWithSession(c) /\ AwaitsSettle(c)]_vars

\* a call has resolved with a non-persistent session after both
\* sessionExists and createSession failed
C19_Witness ==
    /\ OnlyCall /\ persist
    /\ budget.faults = MaxFaults - 2
    /\ \E c \in CallIds : calls[c].pc = "done" /\ calls[c].result.isNew
    /\ \E pane \in Panes :
          /\ sessions[pane] # NoSess
          /\ sess[sessions[pane]].isAlive
          /\ ~sess[sessions[pane]].isPersistentBackend

\* the fallback respawn of session s is under way in the set M of tasks
Respawning(M, s) == \E t \in M : t.kind = "fallback" /\ t.sess = s

\* a respawn starts only from the exit of a non-persistent session that has
\* not used the fallback shell, and raises no exit event
RespawnOnlyFirstCrash ==
    \A s \in SessIds :
        (~Respawning(mtasks, s) /\ Respawning(mtasks', s)) =>
            /\ last'.op = "sessionExit"
            /\ ~sess[s].usedFallback /\ ~sess[s].isPersistentBackend
            /\ ~ExitEmitted(sess[s].pane)

\* the respawn of s ends with a replacement registered for the pane: alive,
\* non-persistent, usedFallback = true, and no exit event
RespawnRegisters(s) ==
    LET pane == sess[s].pane
    IN /\ last'.op = "fallbackSpawned"
       /\ sessions'[pane] # NoSess
       /\ sess'[sessions'[pane]].usedFallback
       /\ sess'[sessions'[pane]].isAlive
       /\ ~sess'[sessions'[pane]].isPersistentBackend
       /\ ~ExitEmitted(pane)
       /\ ~\E t \in mtasks' : t.kind = "exit" /\ t.sess = s

\* the respawn of s ends because spawning the fallback shell failed: the exit
\* path of s is taken, which raises exit:pane
RespawnGivesUp(s) ==
    /\ last'.op = "fallbackSpawnFailed"
    /\ \E t \in mtasks' : t.kind = "exit" /\ t.sess = s

ESC == "E"
Digit == {"0"}
Whitespace == {" "}

\* the character of s at index i (from 1), "" past the end
At(s, i) == IF i >= 1 /\ i <= Len(s) THEN s[i] ELSE ""

\* s has the characters of lit from index i on
Starts(s, i, lit) == \A k \in 1..Len(lit) : At(s, i + k - 1) = lit[k]

\* the index after the longest run of characters of class from index i on
RECURSIVE SkipWhile(_, _, _)
SkipWhile(s, i, class) == IF At(s, i) \in class THEN SkipWhile(s, i + 1, class) ELSE i

\* CSI [?>]?[0-9;]* final, matched at index i: the index after the match, or 0
Report(s, i, csi, final) ==
    LET a == i + Len(csi)
        b == IF At(s, a) \in {"?", ">"} THEN a + 1 ELSE a
        c == SkipWhile(s, b, Digit \cup {";"})
    IN IF Starts(s, i, csi) /\ Starts(s, c, final) THEN c + Len(final) ELSE 0

\* CSI <\d+(?:;\d+){2}[Mm] matched at index i
MouseSgr(s, i, csi) ==
    LET a == i + Len(csi)
        d1 == SkipWhile(s, a + 1, Digit)
        d2 == SkipWhile(s, d1 + 1, Digit)
        d3 == SkipWhile(s, d2 + 1, Digit)
    IN IF /\ Starts(s, i, csi) /\ At(s, a) = "<"
          /\ d1 > a + 1 /\ At(s, d1) = ";"
          /\ d2 > d1 + 1 /\ At(s, d2) = ";"
          /\ d3 > d2 + 1 /\ At(s, d3) \in {"M", "m"}
       THEN d3 + 1 ELSE 0

\* \d{1,n} followed by the character next, matched at index i
Number(s, i, n, next) ==
    LET d == SkipWhile(s, i, Digit)
    IN IF d > i /\ d - i <= n /\ At(s, d) = next THEN d + 1 ELSE 0

\* \d{1,3};\d{1,3};\d{1,3}M matched at index i
MouseSegment(s, i) ==
    LET a == Number(s, i, 3, ";")
        b == IF a > 0 THEN Number(s, a, 3, ";") ELSE 0
    IN IF b > 0 THEN Number(s, b, 3, "M") ELSE 0

\* the index after the last of the consecutive segments from index i on
RECURSIVE MouseSegments(_, _)
MouseSegments(s, i) ==
    IF MouseSegment(s, i) > 0 THEN MouseSegments(s, MouseSegment(s, i)) ELSE i

\* (?:\d{1,3};\d{1,3};\d{1,3}M){2,} matched at index i
MouseRun(s, i) ==
    LET a == MouseSegment(s, i)
    IN IF a > 0 /\ MouseSegment(s, a) > 0 THEN MouseSegments(s, a) ELSE 0

\* the index after (?:;\d{1,4}){0,n} from index i on, taken greedily
RECURSIVE Groups(_, _, _)
Groups(s, i, n) ==
    LET d == SkipWhile(s, i + 1, Digit)
    IN IF n > 0 /\ At(s, i) = ";" /\ d > i + 1 /\ d - (i + 1) <= 4
       THEN Groups(s, d, n - 1) ELSE i

\* [?>]?\d{1,4}(?:;\d{1,4}){1,4}c(?=$|\s) matched at index i
DaPayloadBody(s, i) ==
    LET a == IF At(s, i) \in {"?", ">"} THEN i + 1 ELSE i
        b == SkipWhile(s, a, Digit)
        c == Groups(s, b, 4)
    IN IF /\ b > a /\ b - a <= 4
          /\ c > b /\ At(s, c) = "c"
          /\ At(s, c + 1) \in Whitespace \cup {""}
       THEN c + 1 ELSE 0

PATTERNS == <<"DA_RESPONSE_RAW", "DA_RESPONSE_CARET", "CPR_RESPONSE_RAW",
              "CPR_RESPONSE_CARET", "MODE_REPORT_RAW", "MODE_REPORT_CARET",
              "MOUSE_SGR_RAW", "MOUSE_SGR_CARET", "MOUSE_SGR_PAYLOAD_RUN">>

\* the regular expression named pattern matched at index i of s
Match(pattern, s, i) ==
    CASE pattern = "DA_RESPONSE_RAW" -> Report(s, i, <<ESC, "[">>, <<"c">>)
      [] pattern = "DA_RESPONSE_CARET" -> Report(s, i, <<"^", "[", "[">>, <<"c">>)
      [] pattern = "CPR_RESPONSE_RAW" -> Report(s, i, <<ESC, "[">>, <<"R">>)
      [] pattern = "CPR_RESPONSE_CARET" -> Report(s, i, <<"^", "[", "[">>, <<"R">>)
      [] pattern = "MODE_REPORT_RAW" -> Report(s, i, <<ESC, "[">>, <<"$", "y">>)
      [] pattern = "MODE_REPORT_CARET" -> Report(s, i, <<"^", "[", "[">>, <<"$", "y">>)
      [] pattern = "MOUSE_SGR_RAW" -> MouseSgr(s, i, <<ESC, "[">>)
      [] pattern = "MOUSE_SGR_CARET" -> MouseSgr(s, i, <<"^", "[", "[">>)
      [] pattern = "MOUSE_SGR_PAYLOAD_RUN" -> MouseRun(s, i)

\* s.replace(pattern, "") from index i on: the matches are found from left to
\* right and do not overlap
RECURSIVE replace(_, _, _)
replace(s, pattern, i) ==
    IF i > Len(s) THEN <<>>
    ELSE IF Match(pattern, s, i) > 0 THEN replace(s, pattern, Match(pattern, s, i))
    ELSE <<s[i]>> \o replace(s, pattern, i + 1)

\* s.replace(DA_PAYLOAD, "$1") from index i on; ^ matches at the start only
RECURSIVE replaceDaPayload(_, _)
replaceDaPayload(s, i) ==
    IF i > Len(s) THEN <<>>
    ELSE IF i = 1 /\ DaPayloadBody(s, 1) > 0 THEN replaceDaPayload(s, DaPayloadBody(s, 1))
    ELSE IF s[i] \in Whitespace /\ DaPayloadBody(s, i + 1) > 0
    THEN <<s[i]>> \o replaceDaPayload(s, DaPayloadBody(s, i + 1))
    ELSE <<s[i]>> \o replaceDaPayload(s, i + 1)

\* the loop over PATTERNS, from the k-th on
RECURSIVE replaceAll(_, _)
replaceAll(s, k) ==
    IF k > Len(PATTERNS) THEN s ELSE replaceAll(replace(s, PATTERNS[k], 1), k + 1)

sanitizeTerminalScrollback(data) ==
    IF data = <<>> THEN data
    ELSE IF /\ \A i \in 1..Len(data) : data[i] # ESC /\ data[i] # ";"
            /\ \A i \in 1..Len(data) : ~Starts(data, i, <<"^", "[">>)
    THEN data
    ELSE replaceDaPayload(replaceAll(data, 1), 1)

\* pieces of terminal output: the introducers and final characters of the
\* reports, parameters, payloads that lost their introducer, and plain text
Fragments ==
    {<<ESC, "[">>, <<"^", "[", "[">>, <<"c">>, <<"R">>, <<"$", "y">>, <<"?">>,
     <<"0", ";", "0">>, <<"<", "0", ";", "0", ";", "0", "M">>,
     <<"0", ";", "0", ";", "0", "M">>, <<" ">>, <<"x">>, <<"[">>}

RECURSIVE Texts(_)
Texts(n) ==
    IF n = 0 THEN {<<>>}
    ELSE Texts(n - 1) \cup {t \o f : t \in Texts(n - 1), f \in Fragments}

\* a caller holds a string
InitSanitizer ==
    /\ InitManager
    /\ text \in {[NoText EXCEPT !.pc = "data", !.data = data] : data \in Texts(MaxFragments)}
    /\ term = NoTerm
    /\ persist = TRUE
    /\ dims = {DefaultDims}
    /\ budget = Unlimited
    /\ backend = [p \in Panes |-> FALSE]
    /\ lifecycles = [p \in Panes |-> NoLc]
    /\ lc = [l \in LcIds |-> NoLifecycle]

\* sanitizeTerminalScrollback(data)
Sanitize ==
    /\ text.pc = "data"
    /\ text' = [text EXCEPT !.pc = "once", !.once = sanitizeTerminalScrollback(text.data)]
    /\ UNCHANGED <<managerVars, sched, term>>

\* sanitizeTerminalScrollback of the result
SanitizeAgain ==
    /\ text.pc = "once"
    /\ text' = [text EXCEPT !.pc = "twice", !.twice = sanitizeTerminalScrollback(text.once)]
    /\ UNCHANGED <<managerVars, sched, term>>

NextSanitizer == Sanitize \/ SanitizeAgain

SpecSanitizer == InitSanitizer /\ [][NextSanitizer]_vars

\* ------------------------------------------------ one session's output
\* A session's PTY output is stored (scrollback, History Writer) and handed
\* to the session's DataBatcher, whose flush raises the data event.  CLEAR
\* stands for the clear-scrollback sequence, which no pattern of the
\* sanitizer matches.
CLEAR == "K"

containsClearScrollbackSequence(data) == \E i \in 1..Len(data) : data[i] = CLEAR

extractContentAfterClear(data) ==
    LET i == CHOOSE i \in 1..Len(data) :
                 data[i] = CLEAR /\ \A j \in (i + 1)..Len(data) : data[j] # CLEAR
    IN SubSeq(data, i + 1, Len(data))

\* what the PTY prints in one chunk
Chunks == {<<"x">>, <<ESC, "[", "c">>, <<CLEAR, "x">>}

\* HistoryWriter.close(): the close starts at the call
writerClose(t, h) == [t EXCEPT !.writer[h] = "closing"]

\* session.historyWriter?.write(chunk)
write(t, chunk) ==
    LET h == t.historyWriter
    IN IF h = NoWriter THEN t
       ELSE [t EXCEPT !.late = @ \/ (chunk # <<>> /\ t.writer[h] \in {"closing", "closed"})]

\* reinitializeHistory up to `await session.historyWriter.close()`
reinitializeHistory(t) ==
    IF t.historyWriter # NoWriter
    THEN [writerClose(t, t.historyWriter) EXCEPT
              !.reinits = @ + 1,
              !.reinit = @ \cup {[id |-> t.reinits + 1, pc |-> "close", h |-> t.historyWriter]}]
    ELSE t

\* reinitializeHistory after the close: `new HistoryWriter`, up to `await init()`
reinitClosed(t, k) ==
    LET h == CHOOSE h \in WriterIds :
                 t.writer[h] = "free" /\ \A g \in WriterIds : t.writer[g] = "free" => h <= g
    IN [t EXCEPT !.writer[k.h] = "closed",
                 !.writer[h] = "created",
                 !.historyWriter = h,
                 !.reinit = (@ \ {k}) \cup {[k EXCEPT !.pc = "init", !.h = h]}]

\* reinitializeHistory after `await session.historyWriter.init()`
reinitInited(t, k) ==
    [t EXCEPT !.writer[k.h] = IF @ = "created" THEN "open" ELSE @,
              !.reinit = @ \ {k}]

\* processTerminalChunk: the data handler of a non-persistent session
processTerminalChunk(t, data) ==
    LET clear == containsClearScrollbackSequence(data)
        t1 == IF clear THEN reinitializeHistory([t EXCEPT !.scrollback = <<>>]) ELSE t
        dataToStore == IF clear THEN extractContentAfterClear(data) ELSE data
        sanitizedDataToStore == sanitizeTerminalScrollback(dataToStore)
        t2 == write([t1 EXCEPT !.scrollback = @ \o sanitizedDataToStore], sanitizedDataToStore)
    IN [t2 EXCEPT !.batch = @ \o data]

\* TerminalManager.handleLifecycleData: the data handler of a Lifecycle-backed session
handleLifecycleData(t, data) ==
    LET clear == containsClearScrollbackSequence(data)
        t1 == IF clear THEN reinitializeHistory([t EXCEPT !.scrollback = <<>>]) ELSE t
        dataToStore == IF clear THEN extractContentAfterClear(data) ELSE data
        t2 == write([t1 EXCEPT !.scrollback = @ \o dataToStore], dataToStore)
    IN [t2 EXCEPT !.batch = @ \o data]

\* TerminalManager.clearScrollback
clearScrollback(t) == reinitializeHistory([t EXCEPT !.scrollback = <<>>])

\* the DataBatcher hands what it holds to onData, which raises data:${paneId}
flush(t) == [t EXCEPT !.delivered = t.batch, !.batch = <<>>]

Term(t) ==
    /\ term' = t
    /\ UNCHANGED <<managerVars, sched, text>>

\* the PTY prints a chunk
PtyData(data) ==
    /\ term.chunks < MaxChunks
    /\ containsClearScrollbackSequence(data) => term.reinits < MaxReinits
    /\ Term(LET t == [term EXCEPT !.chunks = @ + 1]
            IN IF term.backed THEN handleLifecycleData(t, data)
               ELSE processTerminalChunk(t, data))

ClearScrollback ==
    /\ term.reinits < MaxReinits
    /\ Term(clearScrollback(term))

ReinitClosed(k) ==
    /\ k \in term.reinit /\ k.pc = "close"
    /\ Term(reinitClosed(term, k))

ReinitInited(k) ==
    /\ k \in term.reinit /\ k.pc = "init"
    /\ Term(reinitInited(term, k))

Flush ==
    /\ term.batch # <<>>
    /\ Term(flush(term))

\* a session with its History Writer initialised, as createSession returns it
InitTerminal ==
    /\ InitManager
    /\ text = NoText
    /\ term \in {[NoTerm EXCEPT !.backed = b, !.historyWriter = 1, !.writer[1] = "open"]
                 : b \in BOOLEAN}
    /\ persist = TRUE
    /\ dims = {DefaultDims}
    /\ budget = Unlimited
    /\ backend = [p \in Panes |-> FALSE]
    /\ lifecycles = [p \in Panes |-> NoLc]
    /\ lc = [l \in LcIds |-> NoLifecycle]

NextTerminal ==
    \/ \E data \in Chunks : PtyData(data)
    \/ ClearScrollback
    \/ \E k \in term.reinit : ReinitClosed(k)
    \/ \E k \in term.reinit : ReinitInited(k)
    \/ Flush

SpecTerminal == InitTerminal /\ [][NextTerminal]_vars

\* ----------------------------------------------- attach scheduler claims
\* the tasks whose run callback has been started and whose completion
\* callback has not been invoked
RunningTasks == {t \in TaskIds : sched.task[t].st = "running"}

\* C21 (as stated): at every instant at most MAX_CONCURRENT_ATTACHES tasks
\* have been started and have not yet invoked their completion callback,
\* whatever schedule, cancel and completion calls are made.
C21_AtMostThreeInFlight == Cardinality(RunningTasks) <= MAX_CONCURRENT_ATTACHES

\* the tasks that are queued, not canceled and have never been started
PendingTasks(paneId) ==
    {t \in TaskIds : /\ sched.task[t].st = "queued"
                     /\ ~sched.task[t].canceled
                     /\ sched.task[t].paneId = paneId}

OnePendingPerPane == \A paneId \in SchedPanes : Cardinality(PendingTasks(paneId)) <= 1

\* scheduling for a pane cancels and unmaps the task pending for it
ScheduleCancelsPending ==
    \A paneId \in SchedPanes, t \in TaskIds :
        /\ sched.task[t].st = "queued"
        /\ sched.pendingByPaneId[paneId] = t
        /\ \E priority \in Priorities, sync \in BOOLEAN : Schedule(paneId, priority, sync)
        => /\ sched'.pendingByPaneId[paneId] # t
           /\ \/ sched'.task[t].st = "queued" /\ sched'.task[t].canceled
              \/ sched'.task[t].st = "free"

\* a queued task that is not the one its pane maps to is never started
SupersededNeverRuns ==
    \A t \in TaskIds :
        /\ sched.task[t].st = "queued"
        /\ sched.pendingByPaneId[sched.task[t].paneId] # t
        => sched'.task[t].st \in {"queued", "free"}

\* C22: at most one task per paneId is queued, not canceled and not started;
\* scheduling for a pane cancels the task pending for it; of the tasks
\* scheduled for a pane while none has started only the last one runs.
C22_OnePendingPerPane ==
    [][OnePendingPerPane' /\ ScheduleCancelsPending /\ SupersededNeverRuns]_vars

\* a superseded task and its replacement wait in the queue together
C22_Witness ==
    \E t, u \in TaskIds :
        /\ t # u
        /\ sched.task[t].st = "queued" /\ sched.task[u].st = "queued"
        /\ sched.task[t].paneId = sched.task[u].paneId
        /\ sched.task[t].canceled
        /\ sched.pendingByPaneId[sched.task[u].paneId] = u

\* C23 (as stated): every task the scheduler starts is, when it is
\* started, among the queued tasks that are neither canceled nor superseded one
\* with the lowest priority number and, among those, the one enqueued first.
C23_StartsBestTask == sched.ordered

\* a task whose cancel function was called while it was queued is never started
CanceledNeverRuns ==
    \A t \in TaskIds :
        sched.task[t].st = "queued" /\ sched.task[t].canceled
        => sched'.task[t].st \in {"queued", "free"}

\* the cancel function of a queued task marks it, and unmaps its pane if the
\* pane maps to it
CancelMarks ==
    \A t \in TaskIds :
        sched.task[t].st = "queued" /\ Cancel(t)
        => /\ sched'.task[t].st = "queued" /\ sched'.task[t].canceled
           /\ sched'.pendingByPaneId[sched.task[t].paneId] # t

\* the cancel function of a task whose pane maps to another task leaves that
\* task and the mapping as they are
CancelSparesNewer ==
    \A u \in TaskIds :
        sched'.spared = u
        => /\ sched'.task[u] = sched.task[u]
           /\ sched'.pendingByPaneId[sched.task[u].paneId] = u

\* C24: a task whose cancelFn is called before it has started is never run;
\* the cancelFn of an older task (superseded or running) neither cancels nor
\* unmaps a newer task of the same paneId.
C24_CancelIsExact == [][CanceledNeverRuns /\ CancelMarks /\ CancelSparesNewer]_vars

\* the last call was the cancel function of a superseded task, made while its
\* replacement waits in the queue, mapped and not canceled
C24_Witness ==
    \E t, u \in TaskIds :
        /\ t # u
        /\ sched.task[t].st = "queued" /\ sched.task[u].st = "queued"
        /\ sched.task[t].paneId = sched.task[u].paneId
        /\ sched.task[t].canceled /\ ~sched.task[u].canceled
        /\ sched.pendingByPaneId[sched.task[u].paneId] = u
        /\ sched.spared = u

\* a call of scheduleTerminalAttach: a new task object exists
Scheduled == \E t \in TaskIds : sched.task[t].st = "free" /\ sched'.task[t].st # "free"

\* C25 (as stated): if every started task invokes its completion callback in
\* the end, a scheduled task is in the end started, canceled or superseded.
C25_EveryTaskStarts ==
    \A t \in TaskIds : (t \in Candidates(sched)) ~> (t \notin Candidates(sched))

\* C25 (amended): the same, when from some time on no further task is scheduled.
C25_EveryTaskStartsWhenSchedulingStops ==
    <>[][~Scheduled]_vars => C25_EveryTaskStarts

\* a task waits in the queue behind a task of a better priority that was
\* scheduled after it, while three tasks run
C25_Witness ==
    \E t, u \in Candidates(sched) :
        /\ sched.task[u].priority < sched.task[t].priority
        /\ Pos(sched.arrival, t) < Pos(sched.arrival, u)
        /\ sched.inFlight = MAX_CONCURRENT_ATTACHES

\* C27 (as stated): sanitizing the result of sanitizeTerminalScrollback again
\* changes nothing.
C27_Idempotent == text.pc = "twice" => text.twice = text.once


\* C26: every chunk delivered on the pane's data event stream is sanitized:
\* the sanitizer has nothing to remove from it
C26_DeliveredIsSanitized ==
    term.delivered # NoChunk => sanitizeTerminalScrollback(term.delivered) = term.delivered

OpenWriters == {h \in WriterIds : term.writer[h] = "open"}

\* C28: at most one History Writer of the pane is open, it is the one
\* session.historyWriter refers to, and no chunk was written to a writer
\* after its close had started
C28_OneOpenWriter ==
    /\ Cardinality(OpenWriters) <= 1
    /\ \A h \in OpenWriters : term.historyWriter = h
    /\ ~term.late


\* the step deletes the durable history of the pane
HistoryDeleted(pane) ==
    \E i \in 1..Len(emitted') : emitted'[i] = Event("cleanup", pane, "history")

\* the step is kill with deleteHistory = true, or killByWorkspaceId
MarkingStep == last'.op \in {"mkillDeleteHistory", "killByWorkspaceId"}

\* a session of the pane was marked deleteHistoryOnExit, before the step or by it
Marked(pane) ==
    \E s \in SessIds :
        /\ sess[s].created /\ sess[s].pane = pane
        /\ sess[s].deleteHistoryOnExit \/ (MarkingStep /\ sessions[pane] = s)

\* a session becomes marked in steps of kill with deleteHistory = true and of
\* killByWorkspaceId only
MarkedByKillOnly ==
    \A s \in SessIds :
        (sess'[s].created /\ sess'[s].deleteHistoryOnExit /\ ~sess[s].deleteHistoryOnExit)
        => MarkingStep

Settled ==
    /\ tasks = {} /\ mtasks = {} /\ kbw = NoKbw
    /\ \A p \in PtyIds : ptys[p].st # "live"
    /\ \A c \in CallIds : ~Running(W, c)
    /\ \A s \in SessIds : ~sess[s].cleanupTimeout

\* C30: once the processes have exited and every kill and detach has
\* resolved, with nothing left to run, the registry holds no entry of a
\* session whose exit was confirmed (it is not alive) or that was detached
C30_RegistryCleared ==
    Settled => \A pane \in Panes :
                   sessions[pane] # NoSess
                   => sess[sessions[pane]].isAlive /\ ~sess[sessions[pane]].isExpectedDetach


\* the workspace operations with detachAll among them
NextTeardown ==
    \/ NextWorkspace
    \/ \E killThrows \in BOOLEAN : MDetachAll(killThrows)
    \/ DetachAllHistoryClosed
    \/ \E t \in mtasks : DetachAllKillSessionKilled(t)
    \/ \E t \in mtasks : DetachAllKillHistoryClosed(t)
    \/ \E killThrows \in BOOLEAN : MCleanup(killThrows)
    \/ CleanupHistoryClosed
    \/ \E pane \in Panes : CleanupExitTimeout(pane)
    \/ \E pane \in Panes : MKillPtyThrows(pane)

SpecTeardown == InitWorkspace /\ [][NextTeardown]_vars

\* C38: detachAll never asks the backend to kill the backend session of a
\* persistent pane that was detached earlier and is still in the registry
C38_DetachAllKeepsBackend ==
    \A t \in mtasks :
        (t.kind = "detachAll" /\ t.pc = "killSession") => ~sess[t.sess].isExpectedDetach

\* the operation `by` returned (its promise resolved) in the last step
Returned(by) ==
    \E i \in 1..Len(emitted) : emitted[i] = Event("return", "*", by)

\* C31: when cleanup() resolves, the session registry and the Lifecycle map
\* are empty and every Lifecycle has been closed
C31_CleanupLeavesNothing ==
    Returned("cleanup") =>
        /\ \A p \in Panes : sessions[p] = NoSess /\ lifecycles[p] = NoLc
        /\ \A l \in Created : lc[l].state = "closed"

\* C32: kill, detachAll and cleanup never throw or reject, even when
\* session.pty.kill() throws
C32_TeardownNeverThrows ==
    \A i \in 1..Len(emitted) : emitted[i].ev # "throw"

\* C39: at most one attach task per paneId is running
C39_OneRunningPerPane ==
    \A paneId \in SchedPanes :
        Cardinality({t \in RunningTasks : sched.task[t].paneId = paneId}) <= 1


\* C40: a Lifecycle is connected if and only if it holds a PTY handle
C40_ConnectedIffPty ==
    \A l \in Created : lc[l].state = "connected" <=> lc[l].ptyProcess # NoPty


\* the step belongs to the exit handler of a PTY of Lifecycle l
ExitHandlerStep(l) ==
    last'.lc = l /\ last'.op \in {"onExit", "onExitSessionChecked", "reconnect"}

\* C33: the exit handler of the process that detach killed starts no
\* reconnect: its steps leave a disconnected Lifecycle disconnected
C33_DetachedStaysDisconnected ==
    [][\A l \in LcIds :
        (lc[l].created /\ lc[l].state = "disconnected" /\ ExitHandlerStep(l))
        => lc'[l].state = "disconnected"]_vars


\* C34: whenever the Lifecycle of a registered session is connected and holds
\* a PTY, as after a successful automatic reconnect, the session's pty is
\* that PTY
C34_SessionPtyIsCurrent ==
    \A pane \in Panes :
        LET s == sessions[pane]
            l == lifecycles[pane]
        IN (s # NoSess /\ l # NoLc /\ lc[l].state = "connected" /\ lc[l].ptyProcess # NoPty)
           => sess[s].pty = lc[l].ptyProcess


\* the pane's registry entry is the alive session s, whose process runs
AliveEntry(pane, s) ==
    /\ s # NoSess /\ sessions[pane] = s
    /\ sess[s].isAlive /\ sess[s].pty # NoPty /\ ptys[sess[s].pty].st = "live"

\* the step is the cleanup timer of another session of the pane firing, or
\* the fallback path of another session's exit handler deleting the entry
StaleRemoval(pane, s) ==
    \/ \E e \in SessIds \ {s} :
          sess[e].created /\ sess[e].pane = pane /\ sess[e].cleanupTimeout
          /\ ~sess'[e].cleanupTimeout
    \/ \E t \in mtasks \ mtasks' :
          t.kind = "fallback" /\ t.pc = "closeHistory" /\ t.pane = pane /\ t.sess # s

\* C35: the cleanup timer and the fallback path of an earlier session of the
\* pane never remove the registry entry of a newer session whose process is
\* alive
C35_NewerSessionStays ==
    [][\A pane \in Panes, s \in SessIds :
        (AliveEntry(pane, s) /\ sessions'[pane] # s) => ~StaleRemoval(pane, s)]_vars


\* C36: the exit handler starts the fallback-shell respawn only for a session
\* whose process was not signalled: the exit that kill(paneId) causes leads
\* to no new process for the pane
C36_KillNeverRespawns ==
    [][\A t \in mtasks' \ mtasks :
        (t.kind = "fallback" /\ t.pc = "closeHistory")
        => ~ptys[sess[t.sess].pty].signalled]_vars


\* a createOrAttach call registers a non-persistent session for the pane
\* although persistence is enabled
RegistersFallback(pane) ==
    /\ persist
    /\ sessions'[pane] # NoSess /\ sessions'[pane] # sessions[pane]
    /\ ~sess'[sessions'[pane]].isPersistentBackend
    /\ last'.op # "fallbackSpawned"

\* C37: when createOrAttach registers a non-persistent session because
\* persistence failed, no backend session of the pane exists
C37_NoOrphanBackendSession ==
    [][\A pane \in Panes : RegistersFallback(pane) => ~backend'[pane]]_vars

====
